---------------------------- MODULE Spec2Model ----------------------------
(***************************************************************************)
(* Model of RNet's capture / classify / aggregate pipeline:                *)
(*   src/src/network/capture.rs  (capture thread, classification, geo)     *)
(*   src/src/network/types.rs    (PacketStats, GeoStats, ConnectionStats)  *)
(*   src/src/app.rs              (App::new, App::update)                   *)
(*   src/src/utils.rs            (IpRange, is_local_ip, ...)               *)
(*   src/src/main.rs             (run_app: the consumer loop)              *)
(***************************************************************************)
EXTENDS Integers, Sequences, FiniteSets, TLC

(***************************************************************************)
(* Bounds of the model                                                     *)
(***************************************************************************)
\* frames (or read errors) the packet source delivers in one run
MaxFrames == 2
\* largest value of the monotonic clock (Instant::now), in ticks
MaxClock == 2
\* clock ticks per second
TicksPerSec == 2
\* largest value of the clock, in ticks, where time advances tick by tick
MaxSubTicks == 5
\* update_history calls in the history specification
MaxSamples == 62
\* counter increments in the history specification
MaxIncr == 1
\* region records in the geo specification
MaxRecords == 4
\* largest count of a category in the roll-up specification
MaxCount == 1

(***************************************************************************)
(* Program constants                                                       *)
(***************************************************************************)
HistoryCap == 60
SnapLen == 65535
I32Max == 2147483647

(***************************************************************************)
(* Types                                                                   *)
(***************************************************************************)
PacketType ==
  {"TCP_HTTP", "TCP_HTTPS", "TCP_SSH", "TCP_DNS", "TCP_Other",
   "UDP_DNS", "UDP_DHCP", "UDP_Other", "ICMP", "Other"}

Min(a, b) == IF a <= b THEN a ELSE b

\* IpAddr: V4 carries four octets, V6 is kept opaque
V4(a, b, c, d) == [v |-> 4, o |-> <<a, b, c, d>>]

V6(n) == [v |-> 6, o |-> <<n>>]

(***************************************************************************)
(* utils.rs                                                                *)
(***************************************************************************)
RECURSIVE BitAnd(_, _, _)
\* x & y on the low n bits
BitAnd(x, y, n) ==
  IF n = 0 THEN 0
  ELSE (IF x % 2 = 1 /\ y % 2 = 1 THEN 1 ELSE 0)
       + 2 * BitAnd(x \div 2, y \div 2, n - 1)

RECURSIVE Pow2(_)
Pow2(n) == IF n = 0 THEN 1 ELSE 2 * Pow2(n - 1)

MaskByte_no_partial(i, prefix) ==
  IF i * 8 < prefix
  THEN IF (i + 1) * 8 <= prefix
       THEN 255
       ELSE 0
  ELSE 0

\* mask byte i (0-based) of IpRange::new(base, prefix)
MaskByte(i, prefix) ==
  IF i * 8 < prefix
  THEN IF (i + 1) * 8 <= prefix
       THEN 255
       ELSE (255 * Pow2(8 - (prefix - i * 8))) % 256
  ELSE 0

IpRange_new(base, prefix) ==
  [base |-> base, mask |-> [i \in 1..4 |-> MaskByte(i - 1, prefix)]]

IpRange_contains(r, ip) ==
  IF ip.v = 4
  THEN \A i \in 1..4 : BitAnd(ip.o[i], r.mask[i], 8) = BitAnd(r.base[i], r.mask[i], 8)
  ELSE FALSE

is_local_ip(ip, local_networks) ==
  \E i \in 1..Len(local_networks) : IpRange_contains(local_networks[i], ip)

is_private_ip_rfc1918(ip) ==
  IF ip.v = 4
  THEN \/ ip.o[1] = 10
       \/ (ip.o[1] = 172 /\ ip.o[2] >= 16 /\ ip.o[2] <= 31)
       \/ (ip.o[1] = 192 /\ ip.o[2] = 168)
  ELSE FALSE

is_private_ip(ip) ==
  IF ip.v = 4
  THEN \/ ip.o[1] = 10
       \/ (ip.o[1] = 172 /\ ip.o[2] >= 16 /\ ip.o[2] <= 31)
       \/ (ip.o[1] = 192 /\ ip.o[2] = 168)
       \/ (ip.o[1] = 169 /\ ip.o[2] = 254)
  ELSE FALSE

is_loopback_ip(ip) ==
  IF ip.v = 4 THEN ip.o[1] = 127 ELSE FALSE

\* App::new: the five built-in local ranges
local_networks ==
  << IpRange_new(<<10, 0, 0, 0>>, 8),
     IpRange_new(<<172, 16, 0, 0>>, 12),
     IpRange_new(<<192, 168, 0, 0>>, 16),
     IpRange_new(<<127, 0, 0, 0>>, 8),
     IpRange_new(<<169, 254, 0, 0>>, 16) >>

get_connection_direction_src_only(src_ip, dst_ip, nets) ==
  IF is_local_ip(src_ip, nets) THEN "Outbound" ELSE "Inbound"

\* capture.rs get_connection_direction
get_connection_direction(src_ip, dst_ip, nets) ==
  LET src_is_local == is_local_ip(src_ip, nets)
      dst_is_local == is_local_ip(dst_ip, nets)
  IN IF src_is_local /\ ~dst_is_local THEN "Outbound" ELSE "Inbound"

(***************************************************************************)
(* capture.rs: geo lookup                                                  *)
(***************************************************************************)
NoLocation == "None"

lookup_ip_location_shifted(ip) ==
  IF is_loopback_ip(ip) \/ is_private_ip(ip) THEN NoLocation
  ELSE IF ip.v # 4 THEN NoLocation
  ELSE IF ip.o[1] <= 50 THEN "US"
  ELSE IF ip.o[1] <= 100 THEN "EU"
  ELSE IF ip.o[1] <= 150 THEN "CN"
  ELSE IF ip.o[1] <= 200 THEN "AU"
  ELSE "BR"

\* the country code of the GeoLocation returned, or None
lookup_ip_location(ip) ==
  IF is_loopback_ip(ip) \/ is_private_ip(ip) THEN NoLocation
  ELSE IF ip.v # 4 THEN NoLocation
  ELSE IF ip.o[1] <= 49 THEN "US"
  ELSE IF ip.o[1] <= 99 THEN "EU"
  ELSE IF ip.o[1] <= 149 THEN "CN"
  ELSE IF ip.o[1] <= 199 THEN "AU"
  ELSE "BR"

\* the GeoLocation built in the match arm that returns this country code
GeoLocation(country) ==
  [country |-> country,
   region |-> CASE country = "US" -> "North America"
                [] country = "EU" -> "Europe"
                [] country = "CN" -> "Asia"
                [] country = "AU" -> "Oceania"
                [] country = "BR" -> "South America",
   latitude |-> CASE country = "US" -> "37.0902"
                  [] country = "EU" -> "54.5260"
                  [] country = "CN" -> "35.8617"
                  [] country = "AU" -> "-25.2744"
                  [] country = "BR" -> "-14.2350",
   longitude |-> CASE country = "US" -> "-95.7129"
                   [] country = "EU" -> "15.2551"
                   [] country = "CN" -> "104.1954"
                   [] country = "AU" -> "133.7751"
                   [] country = "BR" -> "-51.9253"]

(***************************************************************************)
(* capture.rs: classification by port                                      *)
(***************************************************************************)
classify_tcp_v4_swapped(src_port, dst_port) ==
  IF src_port = 443 \/ dst_port = 443 THEN "TCP_HTTPS"
  ELSE IF src_port = 80 \/ dst_port = 80 THEN "TCP_HTTP"
  ELSE IF src_port = 22 \/ dst_port = 22 THEN "TCP_SSH"
  ELSE IF src_port = 53 \/ dst_port = 53 THEN "TCP_DNS"
  ELSE "TCP_Other"

classify_tcp_v4(src_port, dst_port) ==
  IF src_port = 80 \/ dst_port = 80 THEN "TCP_HTTP"
  ELSE IF src_port = 443 \/ dst_port = 443 THEN "TCP_HTTPS"
  ELSE IF src_port = 22 \/ dst_port = 22 THEN "TCP_SSH"
  ELSE IF src_port = 53 \/ dst_port = 53 THEN "TCP_DNS"
  ELSE "TCP_Other"

classify_tcp_v6(src_port, dst_port) ==
  IF src_port = 80 \/ dst_port = 80 THEN "TCP_HTTP"
  ELSE IF src_port = 443 \/ dst_port = 443 THEN "TCP_HTTPS"
  ELSE IF src_port = 22 \/ dst_port = 22 THEN "TCP_SSH"
  ELSE IF src_port = 53 \/ dst_port = 53 THEN "TCP_DNS"
  ELSE "TCP_Other"

classify_udp_v4_dst_only(src_port, dst_port) ==
  IF dst_port = 53 THEN "UDP_DNS"
  ELSE IF dst_port = 67 \/ dst_port = 68 THEN "UDP_DHCP"
  ELSE "UDP_Other"

classify_udp_v4(src_port, dst_port) ==
  IF src_port = 53 \/ dst_port = 53 THEN "UDP_DNS"
  ELSE IF src_port = 67 \/ dst_port = 67 \/ src_port = 68 \/ dst_port = 68 THEN "UDP_DHCP"
  ELSE "UDP_Other"

classify_udp_v6(src_port, dst_port) ==
  IF src_port = 53 \/ dst_port = 53 THEN "UDP_DNS"
  ELSE IF src_port = 67 \/ dst_port = 67 \/ src_port = 68 \/ dst_port = 68 THEN "UDP_DHCP"
  ELSE "UDP_Other"

(***************************************************************************)
(* A frame as the pnet parsers see it.                                     *)
(*   eth   : "none" (EthernetPacket::new is None), or the ethertype        *)
(*   ip_ok : Ipv4Packet::new / Ipv6Packet::new is Some                     *)
(*   proto : next-level protocol / next header                             *)
(*   l4_ok : TcpPacket::new / UdpPacket::new is Some                       *)
(*   len   : packet.header.len; caplen is min(len, snaplen)                *)
(***************************************************************************)
Frame(eth, ip_ok, proto, l4_ok, src_ip, dst_ip, src_port, dst_port, len) ==
  [eth |-> eth, ip_ok |-> ip_ok, proto |-> proto, l4_ok |-> l4_ok,
   src_ip |-> src_ip, dst_ip |-> dst_ip,
   src_port |-> src_port, dst_port |-> dst_port, len |-> len]

caplen(f) == Min(f.len, SnapLen)

IsTcp4_any_ip(f) == f.eth \in {"ipv4", "ipv6"} /\ f.ip_ok /\ f.proto = "tcp" /\ f.l4_ok

\* the frame reached the IPv4 TCP arm with a parsed TCP header
IsTcp4(f) == f.eth = "ipv4" /\ f.ip_ok /\ f.proto = "tcp" /\ f.l4_ok

IsUdp4_any_ip(f) == f.eth \in {"ipv4", "ipv6"} /\ f.ip_ok /\ f.proto = "udp" /\ f.l4_ok

\* the frame reached the IPv4 UDP arm with a parsed UDP header
IsUdp4(f) == f.eth = "ipv4" /\ f.ip_ok /\ f.proto = "udp" /\ f.l4_ok

packet_type_of_unparsed_udp(f) ==
  IF f.eth = "ipv4" /\ f.ip_ok
  THEN IF f.proto = "tcp"
       THEN IF f.l4_ok THEN classify_tcp_v4(f.src_port, f.dst_port) ELSE "Other"
       ELSE IF f.proto = "udp"
       THEN IF f.l4_ok THEN classify_udp_v4(f.src_port, f.dst_port) ELSE "UDP_Other"
       ELSE IF f.proto = "icmp" THEN "ICMP"
       ELSE "Other"
  ELSE IF f.eth = "ipv6" /\ f.ip_ok
  THEN IF f.proto = "tcp"
       THEN IF f.l4_ok THEN classify_tcp_v6(f.src_port, f.dst_port) ELSE "Other"
       ELSE IF f.proto = "udp"
       THEN IF f.l4_ok THEN classify_udp_v6(f.src_port, f.dst_port) ELSE "Other"
       ELSE IF f.proto = "icmpv6" THEN "ICMP"
       ELSE "Other"
  ELSE "Other"

\* the value of the local packet_type when the match on the ethertype ends
packet_type_of(f) ==
  IF f.eth = "ipv4" /\ f.ip_ok
  THEN IF f.proto = "tcp"
       THEN IF f.l4_ok THEN classify_tcp_v4(f.src_port, f.dst_port) ELSE "Other"
       ELSE IF f.proto = "udp"
       THEN IF f.l4_ok THEN classify_udp_v4(f.src_port, f.dst_port) ELSE "Other"
       ELSE IF f.proto = "icmp" THEN "ICMP"
       ELSE "Other"
  ELSE IF f.eth = "ipv6" /\ f.ip_ok
  THEN IF f.proto = "tcp"
       THEN IF f.l4_ok THEN classify_tcp_v6(f.src_port, f.dst_port) ELSE "Other"
       ELSE IF f.proto = "udp"
       THEN IF f.l4_ok THEN classify_udp_v6(f.src_port, f.dst_port) ELSE "Other"
       ELSE IF f.proto = "icmpv6" THEN "ICMP"
       ELSE "Other"
  ELSE "Other"

(***************************************************************************)
(* State                                                                   *)
(***************************************************************************)
VARIABLES
  running,             \* Arc<AtomicBool> shared by run_app and the capture thread
  pc,                  \* position of the capture thread
  consecutive_errors,  \* i32 local of the capture thread
  pkt,                 \* the frame of the current iteration
  packet_type,         \* local packet_type of the current iteration
  now_local,           \* local `now` read under the connections lock
  connLock,            \* holders of the connections mutex
  geoLock,             \* holders of the geo_stats mutex
  statsLock,           \* holders of the packet_stats mutex
  connections,         \* HashMap<ConnectionId, ConnectionStats>, as its set of entries
  counts,              \* PacketStats.counts
  history,             \* PacketStats.history
  last_update,         \* PacketStats.last_update
  locations,           \* GeoStats.locations: country code -> packet count
  top_country,         \* GeoStats.top_country
  clock,               \* Instant::now()
  cpc,                 \* position of the UI thread (run_app)
  cls_frame,           \* classification specification: the frame classified
  cls_type,            \* classification specification: its packet type
  frames_read,         \* history: calls of next_packet that returned
  attempts,            \* history: try_lock calls per mutex in the current iteration
  skipped,             \* history: mutexes whose try_lock failed in the current iteration
  flow_log,            \* history: the (id, now, packet_len) of every upsert started
  flow_frames,         \* history: frames that reached a connection upsert site
  flow_skips,          \* history: failed try_lock calls on connections
  samples_log,         \* history: every snapshot update_history pushed
  incr_count,          \* history: increments applied in the history specification
  network_stats,       \* App.network_stats: counters, speeds and stamp of the last sample
  fn_arg,              \* the argument of a function, the readings of an App::update
  fn_ret               \* function specifications: << >>, or << the value returned >>

vars ==
  << running, pc, consecutive_errors, pkt, packet_type, now_local,
     connLock, geoLock, statsLock, connections, counts, history, last_update,
     locations, top_country, clock, cpc, cls_frame, cls_type,
     frames_read, attempts, skipped, flow_log, flow_frames, flow_skips,
     samples_log, incr_count, network_stats, fn_arg, fn_ret >>

producerVars == << pc, consecutive_errors, pkt, packet_type, now_local >>

lockVars == << connLock, geoLock, statsLock >>

tableVars == << connections, counts, history, last_update, locations, top_country >>

clsVars == << cls_frame, cls_type >>

fnVars == << fn_arg, fn_ret >>

histVars ==
  << frames_read, attempts, skipped, flow_log, flow_frames, flow_skips,
     samples_log, incr_count >>

LockNames == {"connections", "geo_stats", "packet_stats"}

NoFrame == Frame("none", FALSE, "other", FALSE, V6(0), V6(0), 0, 0, 0)

(***************************************************************************)
(* Frames the packet source delivers in the pipeline specification         *)
(***************************************************************************)
LocalHost == V4(192, 168, 1, 2)

RemoteUS == V4(8, 8, 8, 8)

RemoteBR == V4(203, 0, 113, 5)

FrameSet ==
  { Frame("ipv4", TRUE, "tcp", TRUE, LocalHost, RemoteUS, 5000, 443, 60),
    Frame("ipv4", TRUE, "tcp", TRUE, RemoteUS, LocalHost, 443, 5000, 100),
    Frame("ipv4", TRUE, "udp", TRUE, LocalHost, RemoteBR, 5000, 53, 80),
    Frame("ipv4", TRUE, "icmp", FALSE, LocalHost, RemoteUS, 0, 0, 60),
    Frame("ipv6", TRUE, "tcp", TRUE, V6(1), V6(2), 5000, 80, 60),
    Frame("ipv4", FALSE, "other", FALSE, V6(0), V6(0), 0, 0, 20),
    Frame("ipv4", TRUE, "udp", FALSE, LocalHost, RemoteUS, 0, 0, 30),
    Frame("ipv4", TRUE, "other", FALSE, LocalHost, RemoteUS, 0, 0, 60),
    Frame("ipv6", FALSE, "other", FALSE, V6(0), V6(0), 0, 0, 20),
    Frame("ipv6", TRUE, "tcp", FALSE, V6(1), V6(2), 0, 0, 50),
    Frame("ipv6", TRUE, "other", FALSE, V6(1), V6(2), 0, 0, 60),
    Frame("other", FALSE, "other", FALSE, V6(0), V6(0), 0, 0, 60),
    Frame("none", FALSE, "other", FALSE, V6(0), V6(0), 0, 0, 10) }

(***************************************************************************)
(* types.rs                                                                *)
(***************************************************************************)
\* PacketStats::new: all ten categories at 0
PacketStats_new_counts == [t \in PacketType |-> 0]

increment_twice(c, t) ==
  IF t \in DOMAIN c
  THEN [c EXCEPT ![t] = @ + 2]
  ELSE [k \in DOMAIN c \cup {t} |-> IF k = t THEN 2 ELSE c[k]]

\* *stats.counts.entry(packet_type).or_insert(0) += 1
increment(c, t) ==
  IF t \in DOMAIN c
  THEN [c EXCEPT ![t] = @ + 1]
  ELSE [k \in DOMAIN c \cup {t} |-> IF k = t THEN 1 ELSE c[k]]

update_history_shared_counts(h, c) ==
  LET kept == IF Len(h) >= HistoryCap THEN Tail(h) ELSE h
  IN [i \in 1..(Len(kept) + 1) |-> c]

update_history_evict_back(h, c) ==
  IF Len(h) >= HistoryCap
  THEN Append(SubSeq(h, 1, Len(h) - 1), c)
  ELSE Append(h, c)

update_history_no_evict(h, c) == Append(h, c)

\* PacketStats::update_history: the new history
update_history(h, c) ==
  IF Len(h) >= HistoryCap
  THEN Append(Tail(h), c)
  ELSE Append(h, c)

get_basic_type_dns_as_udp(ptype) ==
  IF ptype \in {"TCP_HTTP", "TCP_HTTPS", "TCP_SSH", "TCP_Other"} THEN "TCP"
  ELSE IF ptype \in {"TCP_DNS", "UDP_DNS", "UDP_DHCP", "UDP_Other"} THEN "UDP"
  ELSE IF ptype = "ICMP" THEN "ICMP"
  ELSE "Other"

\* get_basic_type: the BasicProtocolType of a PacketType
get_basic_type(ptype) ==
  IF ptype \in {"TCP_HTTP", "TCP_HTTPS", "TCP_SSH", "TCP_DNS", "TCP_Other"} THEN "TCP"
  ELSE IF ptype \in {"UDP_DNS", "UDP_DHCP", "UDP_Other"} THEN "UDP"
  ELSE IF ptype = "ICMP" THEN "ICMP"
  ELSE "Other"

RECURSIVE sum_counts(_, _)
\* stats.counts.iter().filter(..).map(|(_, v)| *v).sum() over the keys K
sum_counts(c, K) ==
  IF K = {} THEN 0
  ELSE LET k == CHOOSE x \in K : TRUE IN c[k] + sum_counts(c, K \ {k})

\* draw_network_overview, ProtocolGrouping::Basic: the four totals displayed
basic_counts(c) ==
  [tcp_count |-> sum_counts(c, {k \in DOMAIN c : get_basic_type(k) = "TCP"}),
   udp_count |-> sum_counts(c, {k \in DOMAIN c : get_basic_type(k) = "UDP"}),
   icmp_count |-> IF "ICMP" \in DOMAIN c THEN c["ICMP"] ELSE 0,
   other_count |-> IF "Other" \in DOMAIN c THEN c["Other"] ELSE 0]

\* geo.locations.entry(country).and_modify(|(_, count)| *count += 1)
\*                .or_insert_with(|| (location, 1))
locations_upsert(locs, location) ==
  IF location \in DOMAIN locs
  THEN [locs EXCEPT ![location] = @ + 1]
  ELSE [c \in DOMAIN locs \cup {location} |-> IF c = location THEN 1 ELSE locs[c]]

update_top_country_min_by_key(locs) ==
  IF DOMAIN locs = {} THEN {"None"}
  ELSE {c \in DOMAIN locs : \A d \in DOMAIN locs : locs[c] <= locs[d]}

\* GeoStats::update_top_country: the keys max_by_key can return
update_top_country(locs) ==
  IF DOMAIN locs = {} THEN {"None"}
  ELSE {c \in DOMAIN locs : \A d \in DOMAIN locs : locs[d] <= locs[c]}

\* an f64 that is the quotient of two integers, kept as the exact fraction
F64(num, den) == [num |-> num, den |-> den]

\* App::new: the NetworkStats of a fresh App (last_update is the time of creation)
NetworkStats_new ==
  [rx_bytes |-> 0, tx_bytes |-> 0, rx_speed |-> F64(0, 1), tx_speed |-> F64(0, 1),
   last_update |-> 0]

(***************************************************************************)
(* Mutex::try_lock                                                         *)
(***************************************************************************)
try_lock_shared(holders) == Cardinality(holders) <= 1

try_lock_ignores_holder(holders) == TRUE

\* try_lock succeeds exactly when nobody holds the mutex
try_lock(holders) == holders = {}

drop_guard_leaks(holders) == holders

\* the MutexGuard of the capture thread goes out of scope at the end of its
\* `if let Ok(..)` block: the mutex is released
drop_guard(holders) == holders \ {"producer"}

(***************************************************************************)
(* u64: the model checker's integers are narrower than 64 bits, so a u64   *)
(* is kept as its four 16-bit limbs, least significant first               *)
(***************************************************************************)
LimbBase == Pow2(16)

\* the u64 of a small natural number (below 2^31)
U64(n) == << n % LimbBase, n \div LimbBase, 0, 0 >>

\* u64::MAX
U64Max == << LimbBase - 1, LimbBase - 1, LimbBase - 1, LimbBase - 1 >>

\* the small natural number a u64 below 2^31 stands for
u64_small(x) == x[1] + (x[2] * LimbBase)

\* x <= y
u64_le(x, y) ==
  \/ x = y
  \/ \E i \in 1..4 : x[i] < y[i] /\ \A j \in (i + 1)..4 : x[j] = y[j]

\* x + n for a u64 x and n below 2^31: the 64-bit sum and the carry out of bit 63
u64_add(x, n) ==
  LET s1 == x[1] + (n % LimbBase)
      s2 == x[2] + (n \div LimbBase) + (s1 \div LimbBase)
      s3 == x[3] + (s2 \div LimbBase)
      s4 == x[4] + (s3 \div LimbBase)
  IN [sum |-> << s1 % LimbBase, s2 % LimbBase, s3 % LimbBase, s4 % LimbBase >>,
      carry |-> s4 \div LimbBase]

\* the value `x += n` leaves when the addition does not panic
wrapping_add(x, n) == u64_add(x, n).sum

\* `x += n` overflows
add_overflows(x, n) == u64_add(x, n).carry > 0

(***************************************************************************)
(* Connection table helpers                                                *)
(***************************************************************************)
ConnectionId(f, t) ==
  [src_ip |-> f.src_ip, dst_ip |-> f.dst_ip,
   src_port |-> f.src_port, dst_port |-> f.dst_port, protocol |-> t]

packet_len_len_only(f) == f.len

\* let packet_len = packet.header.len + packet.header.caplen
packet_len(f) == f.len + caplen(f)

ConnectionId_eq_undirected(a, b) ==
  \/ a = b
  \/ /\ a.src_ip = b.dst_ip
     /\ a.dst_ip = b.src_ip
     /\ a.src_port = b.dst_port
     /\ a.dst_port = b.src_port
     /\ a.protocol = b.protocol

\* #[derive(PartialEq, Eq, Hash)] on ConnectionId: field by field, in order
ConnectionId_eq(a, b) ==
  /\ a.src_ip = b.src_ip
  /\ a.dst_ip = b.dst_ip
  /\ a.src_port = b.src_port
  /\ a.dst_port = b.dst_port
  /\ a.protocol = b.protocol

HasEntry(conns, id) == \E e \in conns : ConnectionId_eq(e.id, id)

\* the ConnectionStats the entry API hands to and_modify
entry_of(conns, id) == CHOOSE e \in conns : ConnectionId_eq(e.id, id)

\* and_modify, first assignment
modify_last_seen(conns, id, now) ==
  {IF ConnectionId_eq(e.id, id) THEN [e EXCEPT !.last_seen = now] ELSE e : e \in conns}

modify_packet_count_unchanged(conns, id) == conns

\* and_modify, second assignment
modify_packet_count(conns, id) ==
  {IF ConnectionId_eq(e.id, id) THEN [e EXCEPT !.packet_count = wrapping_add(@, 1)] ELSE e : e \in conns}

modify_byte_count_overwrite(conns, id, n) ==
  {IF ConnectionId_eq(e.id, id) THEN [e EXCEPT !.byte_count = U64(n)] ELSE e : e \in conns}

\* and_modify, third assignment
modify_byte_count(conns, id, n) ==
  {IF ConnectionId_eq(e.id, id) THEN [e EXCEPT !.byte_count = wrapping_add(@, n)] ELSE e : e \in conns}

insert_entry_replaces_table(conns, id, now, n) ==
  {[id |-> id, first_seen |-> now, last_seen |-> now,
    packet_count |-> U64(1), byte_count |-> U64(n)]}

\* or_insert_with
insert_entry(conns, id, now, n) ==
  conns \cup {[id |-> id, first_seen |-> now, last_seen |-> now,
               packet_count |-> U64(1), byte_count |-> U64(n)]}

(***************************************************************************)
(* Initial state: App::new, then start_packet_capture spawned the thread   *)
(***************************************************************************)
InitApp(conns) ==
  /\ running = TRUE
  /\ pc = "check"
  /\ pkt = NoFrame
  /\ packet_type = "Other"
  /\ now_local = 0
  /\ connLock = {}
  /\ geoLock = {}
  /\ statsLock = {}
  /\ connections = conns
  /\ counts = PacketStats_new_counts
  /\ history = << >>
  /\ last_update = 0
  /\ locations = << >>
  /\ top_country = "None"
  /\ clock = 0
  /\ cpc = "idle"
  /\ frames_read = 0
  /\ attempts = [l \in LockNames |-> 0]
  /\ skipped = [l \in LockNames |-> FALSE]
  /\ flow_log = << >>
  /\ flow_frames = 0
  /\ flow_skips = 0
  /\ samples_log = << >>
  /\ incr_count = 0
  /\ network_stats = NetworkStats_new

\* App::new: the connection table starts empty
InitCommon == InitApp({})

\* no function is being applied
InitNoCall ==
  /\ fn_arg = << >>
  /\ fn_ret = << >>

Init ==
  /\ InitCommon
  /\ consecutive_errors = 0
  /\ cls_frame = NoFrame
  /\ cls_type = "unset"
  /\ InitNoCall

(***************************************************************************)
(* The capture thread (capture.rs, the closure given to thread::spawn)     *)
(***************************************************************************)
\* where the iteration goes after the connection block
AfterConns(f) == IF IsTcp4(f) THEN "try_geo" ELSE "try_stats"

loop_head_ignores_stop(r) == "read"

\* while running.load(Ordering::Relaxed)
loop_head(r) == IF r THEN "read" ELSE "done"

try_failed_abandons_packet(here, next) == "check"

try_failed_retries(here, next) == here

\* an `if let Ok(guard) = m.try_lock() { .. }` without else: on Err the block is
\* skipped and control falls through to the statement after it
try_failed(here, next) == next

\* the iteration's locals go out of scope
EndIteration ==
  /\ pkt' = NoFrame
  /\ packet_type' = "Other"
  /\ now_local' = 0
  /\ attempts' = [l \in LockNames |-> 0]
  /\ skipped' = [l \in LockNames |-> FALSE]

LoopCheck ==
  /\ pc = "check"
  /\ pc' = loop_head(running)
  /\ UNCHANGED << running, consecutive_errors, pkt, packet_type,
                  now_local, lockVars, tableVars, clock, cpc, clsVars,
                  fnVars, network_stats, histVars >>

\* cap.next_packet() returned Ok(packet), a frame of F: decode and classify
ReadFrame(F) ==
  /\ pc = "read"
  /\ frames_read < MaxFrames
  /\ \E f \in F :
       IF f.eth = "none"
       THEN /\ pc' = "check"
            /\ UNCHANGED << pkt, packet_type, flow_frames >>
       ELSE /\ pkt' = f
            /\ packet_type' = packet_type_of(f)
            /\ pc' = IF IsTcp4(f) \/ IsUdp4(f) THEN "try_conns" ELSE "try_stats"
            /\ flow_frames' = IF IsTcp4(f) \/ IsUdp4(f)
                              THEN flow_frames + 1 ELSE flow_frames
  /\ consecutive_errors' = 0
  /\ frames_read' = frames_read + 1
  /\ UNCHANGED << running, now_local, lockVars, tableVars, clock, cpc, clsVars,
                  fnVars, network_stats,
                  attempts, skipped, flow_log, flow_skips, samples_log, incr_count >>

NextPacketOk == ReadFrame(FrameSet)

\* cap.next_packet() returned Err: consecutive_errors += 1 on an i32.  At i32::MAX
\* the addition panics when the build checks overflow and wraps when it does not.
NextPacketErr ==
  /\ pc = "read"
  /\ frames_read < MaxFrames
  /\ IF consecutive_errors = I32Max
     THEN \E overflow_checks \in BOOLEAN :
            IF overflow_checks
            THEN /\ pc' = "panicked"
                 /\ UNCHANGED consecutive_errors
            ELSE /\ pc' = "sleep"
                 /\ consecutive_errors' = -I32Max - 1
     ELSE /\ pc' = "sleep"
          /\ consecutive_errors' = consecutive_errors + 1
  /\ frames_read' = frames_read + 1
  /\ UNCHANGED << running, pkt, packet_type, now_local, lockVars,
                  tableVars, clock, cpc, clsVars,
                  fnVars, network_stats, attempts, skipped, flow_log,
                  flow_frames, flow_skips, samples_log, incr_count >>

\* thread::sleep(Duration::from_millis(10)) returned
SleepDone ==
  /\ pc = "sleep"
  /\ pc' = "check"
  /\ UNCHANGED << running, consecutive_errors, pkt, packet_type,
                  now_local, lockVars, tableVars, clock, cpc, clsVars,
                  fnVars, network_stats, histVars >>

\* if let Ok(mut conns) = connections.try_lock()
TryConns ==
  /\ pc = "try_conns"
  /\ attempts' = [attempts EXCEPT !["connections"] = @ + 1]
  /\ IF try_lock(connLock)
     THEN /\ connLock' = connLock \cup {"producer"}
          /\ now_local' = clock
          /\ flow_log' = Append(flow_log,
                           [id |-> ConnectionId(pkt, packet_type), now |-> clock,
                            bytes |-> packet_len(pkt), wire |-> pkt.len])
          /\ pc' = IF HasEntry(connections, ConnectionId(pkt, packet_type))
                   THEN "conn_w1" ELSE "conn_insert"
          /\ UNCHANGED << skipped, flow_skips >>
     ELSE /\ skipped' = [skipped EXCEPT !["connections"] = TRUE]
          /\ flow_skips' = flow_skips + 1
          /\ pc' = try_failed("try_conns", AfterConns(pkt))
          /\ UNCHANGED << connLock, now_local, flow_log >>
  /\ UNCHANGED << running, consecutive_errors, pkt, packet_type,
                  geoLock, statsLock, tableVars, clock, cpc, clsVars,
                  fnVars, network_stats, frames_read,
                  flow_frames, samples_log, incr_count >>

\* stats.last_seen = now
ConnW1 ==
  /\ pc = "conn_w1"
  /\ connections' = modify_last_seen(connections, ConnectionId(pkt, packet_type), now_local)
  /\ pc' = "conn_w2"
  /\ UNCHANGED << running, consecutive_errors, pkt, packet_type,
                  now_local, lockVars, counts, history, last_update, locations,
                  top_country, clock, cpc, clsVars, fnVars, network_stats, histVars >>

\* a `+=` on a u64 field of the entry, under the connections guard.  When the
\* addition overflows, a build with overflow checks panics: the thread dies
\* where it is and the guard is dropped while unwinding, which poisons the mutex,
\* so that no try_lock returns Ok again (the lock stays taken); a build without
\* overflow checks stores the wrapped sum and goes on.
AddAssign(overflow, conns_after, lock_after, pc_after) ==
  IF overflow
  THEN \E overflow_checks \in BOOLEAN :
         IF overflow_checks
         THEN /\ pc' = "panicked"
              /\ UNCHANGED << connections, connLock >>
         ELSE /\ pc' = pc_after
              /\ connections' = conns_after
              /\ connLock' = lock_after
  ELSE /\ pc' = pc_after
       /\ connections' = conns_after
       /\ connLock' = lock_after

\* stats.packet_count += 1
ConnW2 ==
  /\ pc = "conn_w2"
  /\ LET id == ConnectionId(pkt, packet_type) IN
       AddAssign(add_overflows(entry_of(connections, id).packet_count, 1),
                 modify_packet_count(connections, id), connLock, "conn_w3")
  /\ UNCHANGED << running, consecutive_errors, pkt, packet_type,
                  now_local, geoLock, statsLock, counts, history, last_update,
                  locations, top_country, clock, cpc, clsVars, fnVars,
                  network_stats, histVars >>

\* stats.byte_count += packet_len as u64; the guard is dropped
ConnW3 ==
  /\ pc = "conn_w3"
  /\ LET id == ConnectionId(pkt, packet_type) IN
       AddAssign(add_overflows(entry_of(connections, id).byte_count, packet_len(pkt)),
                 modify_byte_count(connections, id, packet_len(pkt)),
                 drop_guard(connLock), AfterConns(pkt))
  /\ UNCHANGED << running, consecutive_errors, pkt, packet_type,
                  now_local, geoLock, statsLock, counts, history, last_update,
                  locations, top_country, clock, cpc, clsVars,
                  fnVars, network_stats, histVars >>

\* or_insert_with(|| ConnectionStats {..}); the guard is dropped
ConnInsert ==
  /\ pc = "conn_insert"
  /\ connections' = insert_entry(connections, ConnectionId(pkt, packet_type),
                                 now_local, packet_len(pkt))
  /\ connLock' = drop_guard(connLock)
  /\ pc' = AfterConns(pkt)
  /\ UNCHANGED << running, consecutive_errors, pkt, packet_type,
                  now_local, geoLock, statsLock, counts, history, last_update,
                  locations, top_country, clock, cpc, clsVars,
                  fnVars, network_stats, histVars >>

\* if let Ok(mut geo) = geo_stats.try_lock()
TryGeo ==
  /\ pc = "try_geo"
  /\ attempts' = [attempts EXCEPT !["geo_stats"] = @ + 1]
  /\ IF try_lock(geoLock)
     THEN /\ geoLock' = geoLock \cup {"producer"}
          /\ pc' = "geo_body"
          /\ UNCHANGED skipped
     ELSE /\ skipped' = [skipped EXCEPT !["geo_stats"] = TRUE]
          /\ pc' = try_failed("try_geo", "try_stats")
          /\ UNCHANGED geoLock
  /\ UNCHANGED << running, consecutive_errors, pkt, packet_type,
                  now_local, connLock, statsLock, tableVars, clock, cpc, clsVars,
                  fnVars, network_stats,
                  frames_read, flow_log, flow_frames, flow_skips, samples_log,
                  incr_count >>

target_ip_src_only(f) == f.src_ip

\* the address whose location is looked up
target_ip(f) == IF is_local_ip(f.src_ip, local_networks) THEN f.dst_ip ELSE f.src_ip

\* the body of the geo block; the guard is dropped
GeoBody ==
  /\ pc = "geo_body"
  /\ LET location == lookup_ip_location(target_ip(pkt)) IN
       IF location # NoLocation
       THEN /\ locations' = locations_upsert(locations, location)
            /\ top_country' \in update_top_country(locations')
       ELSE UNCHANGED << locations, top_country >>
  /\ geoLock' = drop_guard(geoLock)
  /\ pc' = "try_stats"
  /\ UNCHANGED << running, consecutive_errors, pkt, packet_type,
                  now_local, connLock, statsLock, connections, counts, history,
                  last_update, clock, cpc, clsVars, fnVars, network_stats, histVars >>

\* if let Ok(mut stats) = packet_stats.try_lock()
TryStats ==
  /\ pc = "try_stats"
  /\ IF try_lock(statsLock)
     THEN /\ statsLock' = statsLock \cup {"producer"}
          /\ pc' = "stats_body"
          /\ attempts' = [attempts EXCEPT !["packet_stats"] = @ + 1]
          /\ UNCHANGED << skipped, pkt, packet_type, now_local >>
     ELSE /\ pc' = try_failed("try_stats", "check")
          /\ IF pc' = "check"
             THEN EndIteration
             ELSE /\ attempts' = [attempts EXCEPT !["packet_stats"] = @ + 1]
                  /\ skipped' = [skipped EXCEPT !["packet_stats"] = TRUE]
                  /\ UNCHANGED << pkt, packet_type, now_local >>
          /\ UNCHANGED statsLock
  /\ UNCHANGED << running, consecutive_errors, connLock, geoLock, tableVars, clock,
                  cpc, clsVars,
                  fnVars, network_stats, frames_read, flow_log, flow_frames, flow_skips,
                  samples_log, incr_count >>

\* *stats.counts.entry(packet_type).or_insert(0) += 1; the guard is dropped
StatsBody ==
  /\ pc = "stats_body"
  /\ counts' = increment(counts, packet_type)
  /\ statsLock' = drop_guard(statsLock)
  /\ pc' = "check"
  /\ EndIteration
  /\ UNCHANGED << running, consecutive_errors, connLock, geoLock, connections,
                  history, last_update, locations, top_country, clock, cpc, clsVars,
                  fnVars, network_stats,
                  frames_read, flow_log, flow_frames, flow_skips, samples_log,
                  incr_count >>

Producer ==
  \/ LoopCheck
  \/ NextPacketOk
  \/ NextPacketErr
  \/ SleepDone
  \/ TryConns
  \/ ConnW1
  \/ ConnW2
  \/ ConnW3
  \/ ConnInsert
  \/ TryGeo
  \/ GeoBody
  \/ TryStats
  \/ StatsBody

(***************************************************************************)
(* The UI thread (main.rs run_app, ui/*.rs draw functions, App::update)    *)
(***************************************************************************)
\* draw_connections: if let Ok(conns) = app.connections.try_lock()
CDrawConnsTry ==
  /\ cpc = "idle"
  /\ try_lock(connLock)
  /\ connLock' = connLock \cup {"consumer"}
  /\ cpc' = "draw_connections"
  /\ UNCHANGED << running, producerVars, geoLock, statsLock,
                  tableVars, clock, clsVars, fnVars, network_stats, histVars >>

\* draw_connections: the table is rendered, the guard is dropped
CDrawConnsDone ==
  /\ cpc = "draw_connections"
  /\ connLock' = connLock \ {"consumer"}
  /\ cpc' = "idle"
  /\ UNCHANGED << running, producerVars, geoLock, statsLock,
                  tableVars, clock, clsVars, fnVars, network_stats, histVars >>

\* draw_geo_map: if let Ok(geo) = app.geo_stats.try_lock()
CDrawGeoTry ==
  /\ cpc = "idle"
  /\ try_lock(geoLock)
  /\ geoLock' = geoLock \cup {"consumer"}
  /\ cpc' = "draw_geo"
  /\ UNCHANGED << running, producerVars, connLock, statsLock,
                  tableVars, clock, clsVars, fnVars, network_stats, histVars >>

\* draw_geo_map: rendered, the guard is dropped
CDrawGeoDone ==
  /\ cpc = "draw_geo"
  /\ geoLock' = geoLock \ {"consumer"}
  /\ cpc' = "idle"
  /\ UNCHANGED << running, producerVars, connLock, statsLock,
                  tableVars, clock, clsVars, fnVars, network_stats, histVars >>

\* draw_network_overview / draw_packet_graph / draw_packet_bar_chart:
\* if let Ok(stats) = app.packet_stats.try_lock()
CDrawStatsTry ==
  /\ cpc = "idle"
  /\ try_lock(statsLock)
  /\ statsLock' = statsLock \cup {"consumer"}
  /\ cpc' = "draw_stats"
  /\ UNCHANGED << running, producerVars, connLock, geoLock,
                  tableVars, clock, clsVars, fnVars, network_stats, histVars >>

\* the packet statistics are rendered, the guard is dropped
CDrawStatsDone ==
  /\ cpc = "draw_stats"
  /\ statsLock' = statsLock \ {"consumer"}
  /\ cpc' = "idle"
  /\ UNCHANGED << running, producerVars, connLock, geoLock,
                  tableVars, clock, clsVars, fnVars, network_stats, histVars >>

\* App::update: if let Ok(mut stats) = self.packet_stats.try_lock()
CUpdateTry ==
  /\ cpc = "idle"
  /\ try_lock(statsLock)
  /\ statsLock' = statsLock \cup {"consumer"}
  /\ cpc' = "update"
  /\ UNCHANGED << running, producerVars, connLock, geoLock,
                  tableVars, clock, clsVars, fnVars, network_stats, histVars >>

elapsed_secs_rounds_up(now, last) == (now - last + TicksPerSec - 1) \div TicksPerSec

\* now.duration_since(stats.last_update).as_secs()
elapsed_secs(now, last) == (now - last) \div TicksPerSec

\* stats.update_history(): push a clone of the counts, stamp last_update
call_update_history ==
  /\ history' = update_history(history, counts)
  /\ last_update' = clock
  /\ samples_log' = Append(samples_log, counts)

\* App::update: update_history when a whole second has passed; the guard is dropped
CUpdateBody ==
  /\ cpc = "update"
  /\ IF elapsed_secs(clock, last_update) >= 1
     THEN call_update_history
     ELSE UNCHANGED << history, last_update, samples_log >>
  /\ statsLock' = statsLock \ {"consumer"}
  /\ cpc' = "idle"
  /\ UNCHANGED << running, producerVars, connLock, geoLock,
                  connections, counts, locations, top_country, clock, clsVars,
                  fnVars, network_stats,
                  frames_read, attempts, skipped, flow_log, flow_frames, flow_skips,
                  incr_count >>

\* run_app: KeyCode::Char('q') => app.running.store(false); return
CQuit ==
  /\ cpc = "idle"
  /\ running' = FALSE
  /\ cpc' = "quit"
  /\ UNCHANGED << producerVars, lockVars, tableVars, clock,
                  clsVars, fnVars, network_stats, histVars >>

\* the monotonic clock advances by a second
Tick ==
  /\ clock + TicksPerSec <= MaxClock
  /\ clock' = clock + TicksPerSec
  /\ UNCHANGED << running, producerVars, lockVars, tableVars, cpc,
                  clsVars, fnVars, network_stats, histVars >>

\* the monotonic clock advances by a fraction of a second
SubTick ==
  /\ clock < MaxSubTicks
  /\ clock' = clock + 1
  /\ UNCHANGED << running, producerVars, lockVars, tableVars, cpc,
                  clsVars, fnVars, network_stats, histVars >>

Consumer ==
  \/ CDrawConnsTry
  \/ CDrawConnsDone
  \/ CDrawGeoTry
  \/ CDrawGeoDone
  \/ CDrawStatsTry
  \/ CDrawStatsDone
  \/ CUpdateTry
  \/ CUpdateBody
  \/ CQuit

Next == Producer \/ Consumer \/ Tick

Spec == Init /\ [][Next]_vars

(***************************************************************************)
(* Classification specification: packet_type_of applied to TCP and UDP     *)
(* frames over IPv4 and IPv6, for every pair of ports of ClassifyPorts     *)
(***************************************************************************)
ClassifyPorts == {22, 53, 67, 68, 80, 443, 5000}

ClassifyFrames ==
  { Frame(eth, TRUE, proto, TRUE,
          IF eth = "ipv4" THEN LocalHost ELSE V6(1),
          IF eth = "ipv4" THEN RemoteUS ELSE V6(2), sp, dp, 60) :
      eth \in {"ipv4", "ipv6"}, proto \in {"tcp", "udp"},
      sp \in ClassifyPorts, dp \in ClassifyPorts }

InitClassify ==
  /\ InitCommon
  /\ consecutive_errors = 0
  /\ cls_frame \in ClassifyFrames
  /\ cls_type = "unset"
  /\ InitNoCall

\* the frame is decoded and classified
Classify ==
  /\ cls_type = "unset"
  /\ cls_type' = packet_type_of(cls_frame)
  /\ UNCHANGED << running, producerVars, lockVars, tableVars, clock, cpc, cls_frame, fnVars,
                  network_stats,
                  histVars >>

NextClassify == Classify

SpecClassify == InitClassify /\ [][NextClassify]_vars

(***************************************************************************)
(* History specification: increments of the counts interleaved with        *)
(* update_history calls, beyond the capacity of the history                *)
(***************************************************************************)
HistCats == {"TCP_HTTP", "Other"}

\* *stats.counts.entry(packet_type).or_insert(0) += 1
HistIncrement ==
  /\ incr_count < MaxIncr
  /\ \E c \in HistCats : counts' = increment(counts, c)
  /\ incr_count' = incr_count + 1
  /\ UNCHANGED << running, producerVars, lockVars, connections, history, last_update,
                  locations, top_country, clock, cpc, clsVars,
                  fnVars, network_stats, frames_read, attempts,
                  skipped, flow_log, flow_frames, flow_skips, samples_log >>

\* stats.update_history()
HistSample ==
  /\ Len(samples_log) < MaxSamples
  /\ call_update_history
  /\ UNCHANGED << running, producerVars, lockVars, connections, counts, locations,
                  top_country, clock, cpc, clsVars,
                  fnVars, network_stats, frames_read, attempts, skipped,
                  flow_log, flow_frames, flow_skips, incr_count >>

NextHist == HistIncrement \/ HistSample

SpecHist == Init /\ [][NextHist]_vars

(***************************************************************************)
(* Long-run specification: the pipeline after I32Max - 1 consecutive read  *)
(* errors since start.  A read error changes only consecutive_errors, so   *)
(* this is the state the program is in after that many failed reads.       *)
(***************************************************************************)
InitLongRun ==
  /\ InitCommon
  /\ consecutive_errors = I32Max - 1
  /\ cls_frame = NoFrame
  /\ cls_type = "unset"
  /\ InitNoCall

SpecLongRun == InitLongRun /\ [][Next]_vars

(***************************************************************************)
(* Long-flow specification: the pipeline when one flow has carried         *)
(* 153722867280912930 packets of 60 bytes, each recorded as 120 bytes:     *)
(* its byte_count is 2^64 - 16, the largest it can be before a `+=`        *)
(* overflows for the first time.                                           *)
(***************************************************************************)
LongFlowFrame == Frame("ipv4", TRUE, "tcp", TRUE, LocalHost, RemoteUS, 5000, 443, 60)

\* 153722867280912930 = 0x0222_2222_2222_2222
LongFlowPackets == << 8738, 8738, 8738, 546 >>

\* 120 * 153722867280912930 = 2^64 - 16
LongFlowBytes == << LimbBase - 16, LimbBase - 1, LimbBase - 1, LimbBase - 1 >>

InitLongFlow ==
  /\ InitApp({ [id |-> ConnectionId(LongFlowFrame, packet_type_of(LongFlowFrame)),
                first_seen |-> 0, last_seen |-> 0,
                packet_count |-> LongFlowPackets, byte_count |-> LongFlowBytes] })
  /\ consecutive_errors = 0
  /\ cls_frame = NoFrame
  /\ cls_type = "unset"
  /\ InitNoCall

SpecLongFlow == InitLongFlow /\ [][Next]_vars

(***************************************************************************)
(* Routing specification: the capture thread alone with the tables (the UI *)
(* thread takes no mutex, so every try_lock succeeds), reading IPv4 flows  *)
(* between local, loopback and remote hosts                                *)
(***************************************************************************)
LocalPeer == V4(10, 0, 0, 1)

Loopback == V4(127, 0, 0, 1)

RemoteEU == V4(93, 184, 216, 34)

RouteFrames ==
  { Frame("ipv4", TRUE, "tcp", TRUE, LocalHost, RemoteUS, 5000, 443, 60),
    Frame("ipv4", TRUE, "tcp", TRUE, RemoteUS, LocalHost, 443, 5000, 100),
    Frame("ipv4", TRUE, "tcp", TRUE, RemoteBR, LocalHost, 443, 5000, 100),
    Frame("ipv4", TRUE, "tcp", TRUE, LocalHost, LocalPeer, 5000, 22, 60),
    Frame("ipv4", TRUE, "tcp", TRUE, Loopback, Loopback, 5000, 80, 60),
    Frame("ipv4", TRUE, "tcp", TRUE, RemoteEU, RemoteUS, 5000, 5001, 60),
    Frame("ipv4", TRUE, "udp", TRUE, LocalHost, RemoteUS, 5000, 443, 80),
    Frame("ipv4", TRUE, "udp", TRUE, LocalHost, RemoteBR, 5000, 53, 80),
    Frame("ipv4", TRUE, "icmp", FALSE, LocalHost, RemoteUS, 0, 0, 60),
    Frame("ipv6", TRUE, "udp", TRUE, V6(1), V6(2), 5000, 53, 80),
    Frame("other", FALSE, "other", FALSE, V6(0), V6(0), 0, 0, 60),
    Frame("none", FALSE, "other", FALSE, V6(0), V6(0), 0, 0, 10) }

RouteNextPacketOk == ReadFrame(RouteFrames)

ProducerRoute ==
  \/ LoopCheck
  \/ RouteNextPacketOk
  \/ NextPacketErr
  \/ SleepDone
  \/ TryConns
  \/ ConnW1
  \/ ConnW2
  \/ ConnW3
  \/ ConnInsert
  \/ TryGeo
  \/ GeoBody
  \/ TryStats
  \/ StatsBody

NextRoute == ProducerRoute \/ CQuit \/ Tick

SpecRoute == Init /\ [][NextRoute]_vars

(***************************************************************************)
(* Geo specification: region records for any sequence of countries         *)
(***************************************************************************)
GeoCountries == {"US", "EU", "CN", "AU", "BR"}

RECURSIVE TotalCount(_)
\* the sum of the counts of all buckets
TotalCount(locs) ==
  IF DOMAIN locs = {} THEN 0
  ELSE LET c == CHOOSE x \in DOMAIN locs : TRUE
       IN locs[c] + TotalCount([d \in DOMAIN locs \ {c} |-> locs[d]])

\* lookup_ip_location returned Some(location): the locations upsert, then
\* geo.update_top_country()
GeoRecord ==
  /\ TotalCount(locations) < MaxRecords
  /\ \E location \in GeoCountries :
       /\ locations' = locations_upsert(locations, location)
       /\ top_country' \in update_top_country(locations')
  /\ UNCHANGED << running, producerVars, lockVars, connections, counts, history,
                  last_update, clock, cpc, clsVars, fnVars, network_stats, histVars >>

NextGeo == GeoRecord

SpecGeo == Init /\ [][NextGeo]_vars

(***************************************************************************)
(* Sampler specification: App::update called at any time, with any         *)
(* readings of the interface counters                                      *)
(***************************************************************************)
\* network.received() / network.transmitted()
CounterValues == {0, 200, 1000, 1500}

speed_signed(new_bytes, old_bytes, elapsed) ==
  F64((new_bytes - old_bytes) * TicksPerSec, elapsed)

\* the speed assigned when elapsed > 0.0; elapsed is in ticks, the speed in bytes
\* per second
speed(new_bytes, old_bytes, elapsed) ==
  IF new_bytes >= old_bytes
  THEN F64((new_bytes - old_bytes) * TicksPerSec, elapsed)
  ELSE F64(new_bytes * TicksPerSec, elapsed)

sample_skipped_without_elapsed(ns, now, rx_bytes, tx_bytes) ==
  LET elapsed == now - ns.last_update IN
    IF elapsed > 0
    THEN [rx_bytes |-> rx_bytes,
          tx_bytes |-> tx_bytes,
          rx_speed |-> speed(rx_bytes, ns.rx_bytes, elapsed),
          tx_speed |-> speed(tx_bytes, ns.tx_bytes, elapsed),
          last_update |-> now]
    ELSE ns

\* App::update, the block under `if let Some(network)`: the new network_stats
sample(ns, now, rx_bytes, tx_bytes) ==
  LET elapsed == now - ns.last_update IN
    [rx_bytes |-> rx_bytes,
     tx_bytes |-> tx_bytes,
     rx_speed |-> IF elapsed > 0 THEN speed(rx_bytes, ns.rx_bytes, elapsed)
                  ELSE ns.rx_speed,
     tx_speed |-> IF elapsed > 0 THEN speed(tx_bytes, ns.tx_bytes, elapsed)
                  ELSE ns.tx_speed,
     last_update |-> now]

networks_get_ignores_absence(present, ns, now, rx_bytes, tx_bytes) ==
  sample(ns, now, rx_bytes, tx_bytes)

\* if let Some(network) = self.networks.get(interface_name) { .. }: without the
\* interface network_stats is not touched
networks_get(present, ns, now, rx_bytes, tx_bytes) ==
  IF present THEN sample(ns, now, rx_bytes, tx_bytes) ELSE ns

AppUpdateReading_skip_restamps(Present, Values) ==
  /\ cpc = "idle"
  /\ \E present \in Present, rx_bytes \in Values, tx_bytes \in Values :
       /\ network_stats' = networks_get(present, network_stats, clock, rx_bytes, tx_bytes)
       /\ fn_arg' = << [present |-> present,
                        rx_bytes |-> IF present THEN rx_bytes ELSE 0,
                        tx_bytes |-> IF present THEN tx_bytes ELSE 0] >>
  /\ IF try_lock(statsLock) /\ elapsed_secs(clock, last_update) >= 1
     THEN call_update_history
     ELSE /\ last_update' = IF try_lock(statsLock) THEN last_update ELSE clock
          /\ UNCHANGED << history, samples_log >>
  /\ UNCHANGED << running, producerVars, lockVars, connections, counts, locations,
                  top_country, clock, cpc, clsVars, fn_ret, frames_read, attempts,
                  skipped, flow_log, flow_frames, flow_skips, incr_count >>

\* App::update: the interface is sampled if it is listed, then the history is
\* updated if packet_stats can be locked and a whole second has passed.  What
\* self.networks.get and the counters returned is kept in fn_arg
AppUpdateReading(Present, Values) ==
  /\ cpc = "idle"
  /\ \E present \in Present, rx_bytes \in Values, tx_bytes \in Values :
       /\ network_stats' = networks_get(present, network_stats, clock, rx_bytes, tx_bytes)
       /\ fn_arg' = << [present |-> present,
                        rx_bytes |-> IF present THEN rx_bytes ELSE 0,
                        tx_bytes |-> IF present THEN tx_bytes ELSE 0] >>
  /\ IF try_lock(statsLock) /\ elapsed_secs(clock, last_update) >= 1
     THEN call_update_history
     ELSE UNCHANGED << history, last_update, samples_log >>
  /\ UNCHANGED << running, producerVars, lockVars, connections, counts, locations,
                  top_country, clock, cpc, clsVars, fn_ret, frames_read, attempts,
                  skipped, flow_log, flow_frames, flow_skips, incr_count >>

AppUpdate == AppUpdateReading(BOOLEAN, CounterValues)

NextSampler == AppUpdate \/ Tick

SpecSampler == Init /\ [][NextSampler]_vars

(***************************************************************************)
(* Cadence specification: App::update called at any time, the clock        *)
(* advancing in fractions of a second over more than two seconds           *)
(***************************************************************************)
NextCadence == AppUpdate \/ SubTick

SpecCadence == Init /\ [][NextCadence]_vars

(***************************************************************************)
(* Function specifications: one call of a function on an argument drawn    *)
(* from a set                                                              *)
(***************************************************************************)
InitCall(Args) ==
  /\ InitCommon
  /\ consecutive_errors = 0
  /\ cls_frame = NoFrame
  /\ cls_type = "unset"
  /\ fn_arg \in Args
  /\ fn_ret = << >>

\* the call returns v
Return(v) ==
  /\ fn_ret = << >>
  /\ fn_ret' = << v >>
  /\ UNCHANGED << running, producerVars, lockVars, tableVars, clock, cpc, clsVars,
                  fn_arg, network_stats, histVars >>

\* lookup_ip_location(ip)
AttributeOctets == {0, 9, 10, 11, 49, 50, 99, 100, 126, 127, 128, 149, 150, 168,
                    169, 170, 171, 172, 173, 191, 192, 193, 199, 200, 255}

AttributeAddrs ==
  {V4(a, b, 1, 1) : a \in AttributeOctets, b \in {0, 15, 16, 31, 32, 168, 254}}
    \cup {V4(203, 0, 113, 5), V4(192, 168, 1, 1), V6(0), V6(1), V6(2)}

InitAttribute == InitCall(AttributeAddrs)

Attribute == Return(lookup_ip_location(fn_arg))

NextAttribute == Attribute

SpecAttribute == InitAttribute /\ [][NextAttribute]_vars

\* IpRange::new(base, prefix).contains(&ip)
RangeBases == { <<10, 0, 0, 0>>, <<172, 16, 0, 0>>, <<192, 168, 1, 77>> }

RangeAddrs ==
  { V4(10, 5, 6, 7), V4(10, 0, 0, 0), V4(11, 0, 0, 0), V4(138, 0, 0, 0),
    V4(172, 15, 255, 255), V4(172, 16, 0, 1), V4(172, 31, 255, 255), V4(172, 32, 0, 0),
    V4(192, 168, 1, 77), V4(192, 168, 1, 76), V4(192, 168, 0, 77), V4(0, 0, 0, 0),
    V6(0), V6(1) }

InitIpRange ==
  InitCall([base : RangeBases, prefix : 0..32, ip : RangeAddrs])

Contains == Return(IpRange_contains(IpRange_new(fn_arg.base, fn_arg.prefix), fn_arg.ip))

NextIpRange == Contains

SpecIpRange == InitIpRange /\ [][NextIpRange]_vars

\* get_connection_direction(src_ip, dst_ip, &local_networks)
DirectionAddrs ==
  { V4(192, 168, 1, 2), V4(10, 0, 0, 1), V4(127, 0, 0, 1), V4(169, 254, 3, 4),
    V4(172, 16, 0, 1), V4(172, 32, 0, 1), V4(8, 8, 8, 8), V4(8, 9, 8, 8),
    V4(203, 0, 113, 5), V6(1), V6(2) }

\* the configured ranges as (base, prefix) pairs: the five built-in ones, and
\* a configuration of the caller's
DirectionConfigs ==
  { << [base |-> <<10, 0, 0, 0>>, prefix |-> 8],
       [base |-> <<172, 16, 0, 0>>, prefix |-> 12],
       [base |-> <<192, 168, 0, 0>>, prefix |-> 16],
       [base |-> <<127, 0, 0, 0>>, prefix |-> 8],
       [base |-> <<169, 254, 0, 0>>, prefix |-> 16] >>,
    << [base |-> <<8, 8, 0, 0>>, prefix |-> 15] >> }

InitDirection ==
  InitCall([src_ip : DirectionAddrs, dst_ip : DirectionAddrs, nets : DirectionConfigs])

Direction ==
  Return(get_connection_direction(
           fn_arg.src_ip, fn_arg.dst_ip,
           [i \in 1..Len(fn_arg.nets) |->
              IpRange_new(fn_arg.nets[i].base, fn_arg.nets[i].prefix)]))

SpecDirection == InitDirection /\ [][Direction]_vars

\* draw_network_overview with ProtocolGrouping::Basic on a counts mapping
InitRollup == InitCall([PacketType -> 0..MaxCount])

Rollup == Return(basic_counts(fn_arg))

NextRollup == Rollup

SpecRollup == InitRollup /\ [][NextRollup]_vars

(***************************************************************************)
(* Startup specification: main from App::new to run_app, with every        *)
(* outcome of start_packet_capture's device lookup and open                *)
(***************************************************************************)
\* what the device calls of start_packet_capture do: Device::list fails, no
\* listed device has the name, Capture::from_device fails, open fails, or all succeed
DeviceOutcomes == {"list_err", "not_found", "from_device_err", "open_err", "opened"}

\* the Result start_packet_capture returns: `?` on the first three calls, and
\* `return Ok(())` after eprintln! when open fails
start_packet_capture_result(outcome) ==
  IF outcome \in {"list_err", "not_found", "from_device_err"} THEN "Err" ELSE "Ok"

\* frames the packet source delivers in the startup specification
StartupFrames ==
  { Frame("ipv4", TRUE, "tcp", TRUE, LocalHost, RemoteUS, 5000, 443, 60),
    Frame("ipv4", TRUE, "icmp", FALSE, LocalHost, RemoteUS, 0, 0, 60) }

\* main has built the App and not yet called start_packet_capture
InitStartup ==
  /\ running = TRUE
  /\ pc = "not_spawned"
  /\ pkt = NoFrame
  /\ packet_type = "Other"
  /\ now_local = 0
  /\ connLock = {}
  /\ geoLock = {}
  /\ statsLock = {}
  /\ connections = {}
  /\ counts = PacketStats_new_counts
  /\ history = << >>
  /\ last_update = 0
  /\ locations = << >>
  /\ top_country = "None"
  /\ clock = 0
  /\ cpc = "main"
  /\ frames_read = 0
  /\ attempts = [l \in LockNames |-> 0]
  /\ skipped = [l \in LockNames |-> FALSE]
  /\ flow_log = << >>
  /\ flow_frames = 0
  /\ flow_skips = 0
  /\ samples_log = << >>
  /\ incr_count = 0
  /\ network_stats = NetworkStats_new
  /\ consecutive_errors = 0
  /\ cls_frame = NoFrame
  /\ cls_type = "unset"
  /\ InitNoCall

\* main: start_packet_capture(..)?; then run_app.  The thread is spawned only
\* when the device was opened; an Err leaves main through `?`
StartCapture ==
  /\ cpc = "main"
  /\ \E outcome \in DeviceOutcomes :
       /\ fn_arg' = << outcome >>
       /\ fn_ret' = << start_packet_capture_result(outcome) >>
       /\ pc' = IF outcome = "opened" THEN "check" ELSE "not_spawned"
       /\ cpc' = IF start_packet_capture_result(outcome) = "Ok" THEN "idle" ELSE "exited"
  /\ UNCHANGED << running, consecutive_errors, pkt, packet_type, now_local,
                  lockVars, tableVars, clock, clsVars, network_stats, histVars >>

StartupNextPacketOk == ReadFrame(StartupFrames)

ProducerStartup ==
  \/ LoopCheck
  \/ StartupNextPacketOk
  \/ NextPacketErr
  \/ SleepDone
  \/ TryConns
  \/ ConnW1
  \/ ConnW2
  \/ ConnW3
  \/ ConnInsert
  \/ TryGeo
  \/ GeoBody
  \/ TryStats
  \/ StatsBody

NextStartup == StartCapture \/ ProducerStartup \/ Consumer \/ Tick

SpecStartup == InitStartup /\ [][NextStartup]_vars

(***************************************************************************)
(* Non-flow specification: both threads, the packet source delivering      *)
(* IPv6, ICMP and other-protocol frames beside one IPv4 TCP flow           *)
(***************************************************************************)
NonFlowFrames ==
  { Frame("ipv4", TRUE, "tcp", TRUE, LocalHost, RemoteUS, 5000, 443, 60),
    Frame("ipv6", TRUE, "tcp", TRUE, V6(1), V6(2), 5000, 443, 60),
    Frame("ipv6", TRUE, "udp", TRUE, V6(1), V6(2), 68, 67, 80),
    Frame("ipv4", TRUE, "icmp", FALSE, LocalHost, RemoteUS, 0, 0, 60),
    Frame("ipv6", TRUE, "icmpv6", FALSE, V6(1), V6(2), 0, 0, 60),
    Frame("ipv4", TRUE, "other", FALSE, LocalHost, RemoteUS, 0, 0, 60) }

NonFlowNextPacketOk == ReadFrame(NonFlowFrames)

ProducerNonFlow ==
  \/ LoopCheck
  \/ NonFlowNextPacketOk
  \/ NextPacketErr
  \/ SleepDone
  \/ TryConns
  \/ ConnW1
  \/ ConnW2
  \/ ConnW3
  \/ ConnInsert
  \/ TryGeo
  \/ GeoBody
  \/ TryStats
  \/ StatsBody

NextNonFlow == ProducerNonFlow \/ Consumer \/ Tick

SpecNonFlow == Init /\ [][NextNonFlow]_vars

(***************************************************************************)
(* IPv4 specification: the capture thread alone (the UI thread takes no    *)
(* mutex, so every try_lock succeeds), reading IPv4 frames only            *)
(***************************************************************************)
Ipv4Frames ==
  { Frame("ipv4", TRUE, "tcp", TRUE, LocalHost, RemoteUS, 5000, 443, 60),
    Frame("ipv4", TRUE, "tcp", TRUE, RemoteUS, LocalHost, 443, 5000, 100),
    Frame("ipv4", TRUE, "tcp", TRUE, LocalHost, RemoteBR, 5000, 80, 60),
    Frame("ipv4", TRUE, "tcp", TRUE, LocalHost, LocalPeer, 5000, 5001, 60),
    Frame("ipv4", TRUE, "udp", TRUE, LocalHost, RemoteUS, 5000, 443, 80),
    Frame("ipv4", TRUE, "udp", TRUE, LocalHost, RemoteBR, 5000, 53, 80),
    Frame("ipv4", TRUE, "udp", TRUE, LocalHost, RemoteUS, 68, 67, 80),
    Frame("ipv4", TRUE, "udp", FALSE, LocalHost, RemoteUS, 0, 0, 30),
    Frame("ipv4", TRUE, "tcp", FALSE, LocalHost, RemoteUS, 0, 0, 30),
    Frame("ipv4", TRUE, "icmp", FALSE, LocalHost, RemoteUS, 0, 0, 60),
    Frame("ipv4", FALSE, "other", FALSE, V6(0), V6(0), 0, 0, 20),
    Frame("none", FALSE, "other", FALSE, V6(0), V6(0), 0, 0, 10) }

Ipv4NextPacketOk == ReadFrame(Ipv4Frames)

ProducerIpv4 ==
  \/ LoopCheck
  \/ Ipv4NextPacketOk
  \/ NextPacketErr
  \/ SleepDone
  \/ TryConns
  \/ ConnW1
  \/ ConnW2
  \/ ConnW3
  \/ ConnInsert
  \/ TryGeo
  \/ GeoBody
  \/ TryStats
  \/ StatsBody

SpecIpv4 == Init /\ [][ProducerIpv4 \/ CQuit \/ Tick]_vars

(***************************************************************************)
(* Sampling under contention: App::update runs while the capture thread    *)
(* takes and drops the packet_stats mutex                                  *)
(***************************************************************************)
\* the interface is missing from the refreshed list, or reports 1000 bytes
ContendedAppUpdate == AppUpdateReading(BOOLEAN, {1000})

SpecContended == Init /\ [][ProducerNonFlow \/ ContendedAppUpdate \/ Tick]_vars

(***************************************************************************)
(* Stop specifications: the capture thread is scheduled fairly (the OS     *)
(* runs a runnable thread; try_lock, sleep and the loop head never wait on *)
(* the UI thread), the UI thread may stop taking steps at any point.       *)
(* SpecStop starts from start-up, SpecStopLongRun after I32Max - 1         *)
(* consecutive read errors.                                                *)
(***************************************************************************)
SpecStop == Init /\ [][NextNonFlow]_vars /\ WF_vars(ProducerNonFlow)

SpecStopLongRun == InitLongRun /\ [][NextNonFlow]_vars /\ WF_vars(ProducerNonFlow)

(***************************************************************************)
(* Local-address specification: is_local_ip under the built-in ranges of   *)
(* App::new, is_private_ip and is_loopback_ip applied to one IPv4 address  *)
(***************************************************************************)
LocalAddrs ==
  {V4(a, b, c, c) :
     a \in {0, 9, 10, 11, 126, 127, 128, 168, 169, 170, 171, 172, 173,
            191, 192, 193, 254, 255},
     b \in {0, 10, 15, 16, 17, 31, 32, 127, 167, 168, 169, 172, 192,
            253, 254, 255},
     c \in {0, 255}}

InitLocal == InitCall(LocalAddrs)

Local ==
  Return([is_local_ip |-> is_local_ip(fn_arg, local_networks),
          is_private_ip |-> is_private_ip(fn_arg),
          is_loopback_ip |-> is_loopback_ip(fn_arg)])

SpecLocal == InitLocal /\ [][Local]_vars

(***************************************************************************)
(* Helpers of the properties                                               *)
(***************************************************************************)
\* either port of the classified frame is p
EitherPort(p) == cls_frame.src_port = p \/ cls_frame.dst_port = p

Classified(proto) == cls_type # "unset" /\ cls_frame.proto = proto

\* positions of the capture thread inside the connection upsert
ConnWritePcs == {"conn_w1", "conn_w2", "conn_w3", "conn_insert"}

\* the upserts started for one ConnectionId, in order
LogOf(id) == SelectSeq(flow_log, LAMBDA r : r.id = id)

LoggedIds == {flow_log[i].id : i \in 1..Len(flow_log)}

RECURSIVE SumBytes(_)
SumBytes(q) == IF q = << >> THEN 0 ELSE Head(q).bytes + SumBytes(Tail(q))

RECURSIVE SumWire(_)
SumWire(q) == IF q = << >> THEN 0 ELSE Head(q).wire + SumWire(Tail(q))

RECURSIVE SumPackets(_)
SumPackets(S) ==
  IF S = {} THEN 0
  ELSE LET e == CHOOSE x \in S : TRUE IN u64_small(e.packet_count) + SumPackets(S \ {e})

\* the table in which every logged upsert is applied in full
AppliedTable ==
  { [id |-> id,
     first_seen |-> LogOf(id)[1].now,
     last_seen |-> LogOf(id)[Len(LogOf(id))].now,
     packet_count |-> U64(Len(LogOf(id))),
     byte_count |-> U64(SumBytes(LogOf(id)))] : id \in LoggedIds }

\* the address lies in one of the default local ranges 10/8, 172.16/12,
\* 192.168/16, 127/8, 169.254/16
InLocalRanges(ip) ==
  /\ ip.v = 4
  /\ \/ ip.o[1] = 10
     \/ (ip.o[1] = 172 /\ ip.o[2] \in 16..31)
     \/ (ip.o[1] = 192 /\ ip.o[2] = 168)
     \/ ip.o[1] = 127
     \/ (ip.o[1] = 169 /\ ip.o[2] = 254)

\* the region table of the specification: the bucket of an address, by first octet
RegionTable(ip) ==
  IF ip.v # 4 \/ InLocalRanges(ip) THEN "None"
  ELSE IF ip.o[1] \in 0..49 THEN "US"
  ELSE IF ip.o[1] \in 50..99 THEN "EU"
  ELSE IF ip.o[1] \in 100..149 THEN "CN"
  ELSE IF ip.o[1] \in 150..199 THEN "AU"
  ELSE "BR"

\* the subject address of a flow: the destination if the source is local, else the source
SubjectOf(src_ip, dst_ip) == IF InLocalRanges(src_ip) THEN dst_ip ELSE src_ip

(***************************************************************************)
(* C1.  TCP classification, as claimed: either port 443 gives TCP_HTTPS;   *)
(* else either port 80 gives TCP_HTTP; else 22 gives TCP_SSH; else 53      *)
(* gives TCP_DNS; otherwise TCP_Other.                                     *)
(***************************************************************************)
C1_TcpClassification_Original ==
  Classified("tcp") =>
    cls_type = IF EitherPort(443) THEN "TCP_HTTPS"
               ELSE IF EitherPort(80) THEN "TCP_HTTP"
               ELSE IF EitherPort(22) THEN "TCP_SSH"
               ELSE IF EitherPort(53) THEN "TCP_DNS"
               ELSE "TCP_Other"

(***************************************************************************)
(* C1, amended.  Port 80 takes precedence over port 443: either port 80    *)
(* gives TCP_HTTP; no port 80 and either port 443 gives TCP_HTTPS; neither *)
(* of these and either port 22 gives TCP_SSH; none of these and either     *)
(* port 53 gives TCP_DNS; no well-known port gives TCP_Other.              *)
(***************************************************************************)
C1_TcpClassification ==
  Classified("tcp") =>
    /\ EitherPort(80) => cls_type = "TCP_HTTP"
    /\ (~EitherPort(80) /\ EitherPort(443)) => cls_type = "TCP_HTTPS"
    /\ (~EitherPort(80) /\ ~EitherPort(443) /\ EitherPort(22)) => cls_type = "TCP_SSH"
    /\ (~EitherPort(80) /\ ~EitherPort(443) /\ ~EitherPort(22) /\ EitherPort(53))
         => cls_type = "TCP_DNS"
    /\ (~EitherPort(80) /\ ~EitherPort(443) /\ ~EitherPort(22) /\ ~EitherPort(53))
         => cls_type = "TCP_Other"

\* a TCP segment from port 443 to port 80 was classified, as TCP_HTTP
C1_Witness ==
  /\ Classified("tcp")
  /\ cls_frame.src_port = 443
  /\ cls_frame.dst_port = 80
  /\ cls_type = "TCP_HTTP"

(***************************************************************************)
(* C2.  UDP classification: either port 53 gives UDP_DNS; else either port *)
(* 67 or 68 gives UDP_DHCP; otherwise UDP_Other; the port that matches may *)
(* be the source or the destination, whatever the other port is.           *)
(***************************************************************************)
C2_UdpClassification ==
  Classified("udp") =>
    /\ EitherPort(53) => cls_type = "UDP_DNS"
    /\ (~EitherPort(53) /\ (EitherPort(67) \/ EitherPort(68))) => cls_type = "UDP_DHCP"
    /\ (~EitherPort(53) /\ ~EitherPort(67) /\ ~EitherPort(68)) => cls_type = "UDP_Other"

\* a UDP datagram from port 68 to an ephemeral port was classified, as UDP_DHCP
C2_Witness ==
  /\ Classified("udp")
  /\ cls_frame.src_port = 68
  /\ cls_frame.dst_port = 5000
  /\ cls_type = "UDP_DHCP"

(***************************************************************************)
(* C3.  Upsert: when no upsert is in flight, every ConnectionId for which  *)
(* N >= 1 packets were recorded has exactly one entry, with packet_count   *)
(* N, byte_count the sum of the N recorded lengths, first_seen the time of *)
(* the first, last_seen the time of the last, and first_seen <= last_seen; *)
(* and no other entry exists.                                              *)
(***************************************************************************)
C3_FlowUpsert ==
  pc \notin ConnWritePcs =>
    /\ \A id \in LoggedIds :
         /\ Cardinality({e \in connections : e.id = id}) = 1
         /\ \A e \in connections :
              e.id = id =>
                /\ e.packet_count = U64(Len(LogOf(id)))
                /\ e.byte_count = U64(SumBytes(LogOf(id)))
                /\ e.first_seen = LogOf(id)[1].now
                /\ e.last_seen = LogOf(id)[Len(LogOf(id))].now
                /\ e.first_seen <= e.last_seen
    /\ \A e \in connections : e.id \in LoggedIds

\* two packets of one flow were recorded at different times
C3_Witness ==
  /\ pc = "check"
  /\ \E e \in connections :
       /\ e.packet_count = U64(2)
       /\ e.first_seen < e.last_seen
       /\ Len(LogOf(e.id)) = 2

(***************************************************************************)
(* C4.  The byte_count of a flow is the sum of the wire lengths            *)
(* (packet.header.len) of the packets recorded for it: each packet adds    *)
(* its wire length, once.                                                  *)
(***************************************************************************)
C4_WireLengthVerbatim ==
  pc \notin ConnWritePcs =>
    \A e \in connections : e.byte_count = U64(SumWire(LogOf(e.id)))

(***************************************************************************)
(* C5.  The capture thread never waits for a mutex: at each try_lock site  *)
(* it can take a step whoever holds the mutex; it tries each mutex at most *)
(* once per packet; when the consumer holds the mutex the thread moves on  *)
(* to the next site leaving the structure as it is, and the structure is   *)
(* not changed later in that packet's iteration.                           *)
(***************************************************************************)
C5_NonBlockingProducer ==
  [][ /\ \A l \in LockNames : attempts'[l] <= 1
      /\ pc \in {"try_conns", "try_geo", "try_stats"} => ENABLED Producer
      /\ (pc = "try_conns" /\ "consumer" \in connLock /\ pc' # pc)
           => (pc' = AfterConns(pkt) /\ connections' = connections
               /\ connLock' = connLock)
      /\ (pc = "try_geo" /\ "consumer" \in geoLock /\ pc' # pc)
           => (pc' = "try_stats" /\ locations' = locations
               /\ top_country' = top_country /\ geoLock' = geoLock)
      /\ (pc = "try_stats" /\ "consumer" \in statsLock /\ pc' # pc)
           => (pc' = "check" /\ counts' = counts /\ statsLock' = statsLock)
      /\ skipped["connections"] => connections' = connections
      /\ skipped["geo_stats"] => (locations' = locations /\ top_country' = top_country)
    ]_vars

\* a packet whose connection update was skipped reached the counter update
C5_Witness ==
  /\ pc = "stats_body"
  /\ skipped["connections"]
  /\ connections = {}
  /\ attempts["connections"] = 1

(***************************************************************************)
(* C6.  Whenever the consumer holds the connections mutex, the table is    *)
(* exactly the table in which every started upsert is applied in full (no  *)
(* record with only some of last_seen, packet_count, byte_count updated);  *)
(* and between upserts the packets counted in the table are the frames     *)
(* that reached the upsert minus those whose try_lock failed.              *)
(***************************************************************************)
C6_AtomicUpdates ==
  /\ "consumer" \in connLock => connections = AppliedTable
  /\ pc \notin (ConnWritePcs \cup {"try_conns"}) =>
       SumPackets(connections) = flow_frames - flow_skips

\* the consumer reads a table with an entry while an update was lost to contention
C6_Witness ==
  /\ "consumer" \in connLock
  /\ connections # {}
  /\ flow_skips >= 1

(***************************************************************************)
(* C7.  The capture loop leaves the loop (exits or fails) only in a state  *)
(* where the stop signal is set, however many read errors occurred.        *)
(***************************************************************************)
C7_LeavesOnlyOnStop ==
  [][ (pc \notin {"done", "panicked"} /\ pc' \in {"done", "panicked"}) => ~running ]_vars

(***************************************************************************)
(* C8.  When the loop head finds the stop signal set the loop exits, and   *)
(* once it has exited it stays exited: no further frame is requested and   *)
(* the counts, the connection table and the geo statistics never change.   *)
(***************************************************************************)
C8_StopObserved ==
  [][ /\ (pc = "check" /\ ~running /\ pc' # pc) => pc' = "done"
      /\ pc = "done" =>
           /\ pc' = "done"
           /\ frames_read' = frames_read
           /\ counts' = counts
           /\ connections' = connections
           /\ locations' = locations
           /\ top_country' = top_country
    ]_vars

\* the loop exited after counting a packet, with frames still to be had
C8_Witness ==
  /\ pc = "done"
  /\ ~running
  /\ frames_read = 1
  /\ \E t \in PacketType : counts[t] = 1

(***************************************************************************)
(* C9.  The history never holds more than 60 snapshots.                    *)
(***************************************************************************)
C9_HistoryBounded == Len(history) <= HistoryCap

\* more than 60 snapshots were taken and the history is full
C9_Witness ==
  /\ Len(samples_log) > HistoryCap
  /\ Len(history) = HistoryCap
  /\ incr_count = 1

(***************************************************************************)
(* C10.  After k update_history calls the history is the last min(k, 60)   *)
(* snapshots taken, in the order taken.                                    *)
(***************************************************************************)
C10_HistoryFifo ==
  LET k == Len(samples_log)
      n == Min(k, HistoryCap)
  IN /\ Len(history) = n
     /\ \A i \in 1..n : history[i] = samples_log[k - n + i]

\* after 61 calls the first snapshot is gone and the 61st is the last element
C10_Witness ==
  /\ Len(samples_log) = HistoryCap + 1
  /\ \A i \in 1..Len(history) : history[i] # samples_log[1]
  /\ history[Len(history)] = samples_log[HistoryCap + 1]

(***************************************************************************)
(* C11.  With no mutex contended, between packets: every TCP or UDP frame  *)
(* over IPv4 read so far was counted in its category, was recorded in the  *)
(* connection table, and, when its subject address is attributable, was    *)
(* recorded in the geo statistics -- for TCP and for UDP alike.            *)
(***************************************************************************)
C11_FlowFramesRouted ==
  pc = "check" =>
    /\ Len(flow_log) = flow_frames
    /\ SumPackets(connections) = flow_frames
    /\ \A t \in PacketType :
         counts[t] >= Cardinality({i \in 1..Len(flow_log) : flow_log[i].id.protocol = t})
    /\ TotalCount(locations) =
         Cardinality({i \in 1..Len(flow_log) :
            RegionTable(SubjectOf(flow_log[i].id.src_ip, flow_log[i].id.dst_ip)) # "None"})

(***************************************************************************)
(* C12.  A frame whose outer type is not identified as IPv4 or IPv6 (an    *)
(* unsupported ethertype, or too short for an Ethernet header) changes no  *)
(* metric: while the capture thread handles it the counts (Other           *)
(* included), the connection table and the geo statistics stay as they     *)
(* are.                                                                    *)
(***************************************************************************)
C12_UnidentifiedFrameDropped ==
  [][ (pkt.eth = "other" \/ (pc = "read" /\ pc' = "check")) =>
        /\ counts' = counts
        /\ connections' = connections
        /\ locations' = locations
        /\ top_country' = top_country
    ]_vars

(***************************************************************************)
(* C13.  While the capture thread handles a frame whose ethertype is IPv4  *)
(* or IPv6 but whose IP header or TCP/UDP header did not parse, or whose   *)
(* protocol is none of TCP, UDP, ICMP: the connection table and the geo    *)
(* statistics never change; when the packet_stats mutex is free the thread *)
(* enters the counter update; and the counts change only there, by exactly *)
(* one more Other (no change at all when the mutex was held).              *)
(***************************************************************************)
PartiallyParsed(f) ==
  /\ f.eth \in {"ipv4", "ipv6"}
  /\ \/ ~f.ip_ok
     \/ (f.proto \in {"tcp", "udp"} /\ ~f.l4_ok)
     \/ f.proto \notin {"tcp", "udp", "icmp", "icmpv6"}

C13_PartialParseCountsOther ==
  [][ (PartiallyParsed(pkt) \/ PartiallyParsed(pkt')) =>
        /\ connections' = connections
        /\ locations' = locations
        /\ top_country' = top_country
        /\ (pc = "try_stats" /\ statsLock = {} /\ pc' # pc) => pc' = "stats_body"
        /\ counts' = IF pc = "stats_body" /\ pc' = "check"
                     THEN [counts EXCEPT !["Other"] = @ + 1]
                     ELSE counts
    ]_vars

\* an IPv4 frame whose UDP header did not parse is at the counter update, as Other
C13_Witness ==
  /\ pc = "stats_body"
  /\ pkt.eth = "ipv4" /\ pkt.ip_ok /\ pkt.proto = "udp" /\ ~pkt.l4_ok
  /\ packet_type = "Other"
  /\ connections = {}
  /\ locations = << >>

(***************************************************************************)
(* C14.  Every sample taken with elapsed > 0 sets, for rx and for tx       *)
(* independently, the rate to (new - previous) / elapsed when the new      *)
(* counter is at least the previous one and to new / elapsed when it is    *)
(* smaller; the rate is never negative.                                    *)
(***************************************************************************)
\* the f64 r is bytes / (ticks / TicksPerSec)
RateIs(r, bytes, ticks) == r.num * ticks = bytes * TicksPerSec * r.den

C14_RateRule ==
  [][ LET elapsed == clock - network_stats.last_update
          previous == network_stats
          new == network_stats'
      IN (new # previous /\ elapsed > 0) =>
           /\ new.rx_bytes >= previous.rx_bytes =>
                RateIs(new.rx_speed, new.rx_bytes - previous.rx_bytes, elapsed)
           /\ new.rx_bytes < previous.rx_bytes =>
                RateIs(new.rx_speed, new.rx_bytes, elapsed)
           /\ new.tx_bytes >= previous.tx_bytes =>
                RateIs(new.tx_speed, new.tx_bytes - previous.tx_bytes, elapsed)
           /\ new.tx_bytes < previous.tx_bytes =>
                RateIs(new.tx_speed, new.tx_bytes, elapsed)
           /\ new.rx_speed.den > 0 /\ new.rx_speed.num >= 0
           /\ new.tx_speed.den > 0 /\ new.tx_speed.num >= 0
    ]_vars

\* a sample read rx = 1500 at 500 B/s and tx = 200 at 200 B/s
C14_Witness ==
  /\ network_stats.last_update >= 1
  /\ network_stats.rx_bytes = 1500
  /\ RateIs(network_stats.rx_speed, 500, TicksPerSec)
  /\ network_stats.tx_bytes = 200
  /\ RateIs(network_stats.tx_speed, 200, TicksPerSec)

(***************************************************************************)
(* C15.  attribute returns None for every IPv6 address, every loopback     *)
(* address (127/8) and every private address (10/8, 172.16/12,             *)
(* 192.168/16, 169.254/16); for every other IPv4 address it returns the    *)
(* bucket of the first octet: 0-49 US / North America, 50-99 EU / Europe,  *)
(* 100-149 CN / Asia, 150-199 AU / Oceania, 200-255 BR / South America.    *)
(***************************************************************************)
RegionName(code) ==
  CASE code = "US" -> "North America"
    [] code = "EU" -> "Europe"
    [] code = "CN" -> "Asia"
    [] code = "AU" -> "Oceania"
    [] code = "BR" -> "South America"

C15_RegionByFirstOctet ==
  fn_ret # << >> =>
    /\ fn_ret[1] = RegionTable(fn_arg)
    /\ fn_ret[1] # "None" =>
         /\ GeoLocation(fn_ret[1]).country = fn_ret[1]
         /\ GeoLocation(fn_ret[1]).region = RegionName(fn_ret[1])
    /\ fn_arg = V4(203, 0, 113, 5) => fn_ret[1] = "BR"
    /\ fn_arg = V4(192, 168, 1, 1) => fn_ret[1] = "None"

\* the address 50.0.1.1, the first of the EU range, was attributed to EU
C15_Witness ==
  /\ fn_arg = V4(50, 0, 1, 1)
  /\ fn_ret = << "EU" >>

(***************************************************************************)
(* C16.  When the geo block handles a packet, the address attributed is    *)
(* the destination if the source lies in the local ranges and the source   *)
(* otherwise: the bucket of that address, and no other, grows by one; when *)
(* that address has no bucket, and so whenever both ends are local or      *)
(* loopback, the geo statistics stay as they are.                          *)
(***************************************************************************)
C16_SubjectAddress ==
  [][ (pc = "geo_body" /\ pc' # pc) =>
        LET bucket == RegionTable(SubjectOf(pkt.src_ip, pkt.dst_ip)) IN
          /\ bucket # "None" =>
                /\ DOMAIN locations' = DOMAIN locations \cup {bucket}
                /\ \A c \in DOMAIN locations' :
                     locations'[c] = IF c = bucket
                                     THEN (IF c \in DOMAIN locations
                                           THEN locations[c] + 1 ELSE 1)
                                     ELSE locations[c]
          /\ bucket = "None" => (locations' = locations /\ top_country' = top_country)
          /\ (InLocalRanges(pkt.src_ip) /\ InLocalRanges(pkt.dst_ip)) =>
                (locations' = locations /\ top_country' = top_country)
    ]_vars

\* an inbound packet was attributed to its source, and then the geo block handled a
\* packet between two local hosts and left the statistics as they were
C16_Witness ==
  /\ pc = "try_stats"
  /\ IsTcp4(pkt)
  /\ pkt.src_ip = LocalHost /\ pkt.dst_ip = LocalPeer
  /\ attempts["geo_stats"] = 1 /\ ~skipped["geo_stats"]
  /\ DOMAIN locations = {"BR"}
  /\ locations["BR"] = 1
  /\ \E e \in connections : e.id.src_ip = RemoteBR /\ e.id.dst_ip = LocalHost

(***************************************************************************)
(* C17.  Before any record the leading bucket is absent; every region      *)
(* record makes exactly one bucket grow, by exactly 1 (a new bucket starts *)
(* at 1), leaves the other buckets as they were, and leaves the leading    *)
(* bucket naming an existing bucket whose count is the maximum over all    *)
(* buckets.                                                                *)
(***************************************************************************)
C17_LeadingBucket ==
  /\ [](DOMAIN locations = {} => top_country = "None")
  /\ [][ locations' # locations =>
           /\ DOMAIN locations \subseteq DOMAIN locations'
           /\ \E b \in DOMAIN locations' :
                /\ locations'[b] = IF b \in DOMAIN locations THEN locations[b] + 1 ELSE 1
                /\ \A c \in DOMAIN locations' \ {b} :
                     c \in DOMAIN locations /\ locations'[c] = locations[c]
           /\ top_country' \in DOMAIN locations'
           /\ \A c \in DOMAIN locations' : locations'[c] <= locations'[top_country']
       ]_vars

\* three records in two buckets: the bucket recorded twice leads the one recorded once
C17_Witness ==
  /\ DOMAIN locations = {"US", "BR"}
  /\ locations["BR"] = 2
  /\ locations["US"] = 1
  /\ top_country = "BR"

(***************************************************************************)
(* C18.  For every base, every prefix length p in 0..32 and every IPv4     *)
(* address a, IpRange::new(base, p).contains(a) is true exactly when the   *)
(* leading p bits of a equal the leading p bits of the base; contains is   *)
(* false for every IPv6 address.                                           *)
(***************************************************************************)
\* bit k (1 is the most significant) of the 32-bit address with octets o
AddrBit(o, k) == (o[((k - 1) \div 8) + 1] \div Pow2(7 - ((k - 1) % 8))) % 2

LeadingBitsEqual(a, b, p) == \A k \in 1..p : AddrBit(a, k) = AddrBit(b, k)

C18_IpRangeContains ==
  (fn_ret # << >>) =>
    fn_ret[1] = IF fn_arg.ip.v = 4
                THEN LeadingBitsEqual(fn_arg.ip.o, fn_arg.base, fn_arg.prefix)
                ELSE FALSE

\* 172.16.0.0/12 was asked about 172.32.0.0, which differs in bit 11, and said no
C18_Witness ==
  /\ fn_arg = [base |-> <<172, 16, 0, 0>>, prefix |-> 12, ip |-> V4(172, 32, 0, 0)]
  /\ fn_ret = << FALSE >>

(***************************************************************************)
(* C19.  get_basic_type is defined on all ten packet types: the five TCP   *)
(* types give TCP, the three UDP types give UDP, ICMP gives ICMP and Other *)
(* gives Other; and the four totals of the basic grouping add up to the    *)
(* sum of the ten counts.                                                  *)
(***************************************************************************)
C19_BasicRollup ==
  (fn_ret # << >>) =>
    /\ \A t \in PacketType : get_basic_type(t) \in {"TCP", "UDP", "ICMP", "Other"}
    /\ \A t \in {"TCP_HTTP", "TCP_HTTPS", "TCP_SSH", "TCP_DNS", "TCP_Other"} :
         get_basic_type(t) = "TCP"
    /\ \A t \in {"UDP_DNS", "UDP_DHCP", "UDP_Other"} : get_basic_type(t) = "UDP"
    /\ get_basic_type("ICMP") = "ICMP"
    /\ get_basic_type("Other") = "Other"
    /\ fn_ret[1].tcp_count =
         fn_arg["TCP_HTTP"] + fn_arg["TCP_HTTPS"] + fn_arg["TCP_SSH"]
           + fn_arg["TCP_DNS"] + fn_arg["TCP_Other"]
    /\ fn_ret[1].udp_count = fn_arg["UDP_DNS"] + fn_arg["UDP_DHCP"] + fn_arg["UDP_Other"]
    /\ fn_ret[1].tcp_count + fn_ret[1].udp_count + fn_ret[1].icmp_count
         + fn_ret[1].other_count = sum_counts(fn_arg, PacketType)

\* a mapping with one TCP-DNS, one UDP-DNS and one ICMP packet was rolled up
C19_Witness ==
  /\ fn_ret # << >>
  /\ fn_arg = [t \in PacketType |-> IF t \in {"TCP_DNS", "UDP_DNS", "ICMP"} THEN 1 ELSE 0]
  /\ fn_ret[1] = [tcp_count |-> 1, udp_count |-> 1, icmp_count |-> 1, other_count |-> 0]

(***************************************************************************)
(* C20.  For every record of the connection table, over any sequence of    *)
(* updates: last_seen, packet_count and byte_count never decrease; an      *)
(* update never fails; and an update that would take a counter past the    *)
(* largest u64 leaves it at the largest u64.                               *)
(***************************************************************************)
C20_FlowStatsSaturating ==
  [][ /\ \A e \in connections :
           \E n \in connections' :
              /\ n.id = e.id
              /\ e.last_seen <= n.last_seen
              /\ u64_le(e.packet_count, n.packet_count)
              /\ u64_le(e.byte_count, n.byte_count)
      /\ pc \in {"conn_w2", "conn_w3"} => pc' # "panicked"
      /\ (pc = "conn_w2" /\ pc' # pc
           /\ add_overflows(entry_of(connections,
                                     ConnectionId(pkt, packet_type)).packet_count, 1))
           => entry_of(connections', ConnectionId(pkt, packet_type)).packet_count = U64Max
      /\ (pc = "conn_w3" /\ pc' # pc
           /\ add_overflows(entry_of(connections,
                                     ConnectionId(pkt, packet_type)).byte_count,
                            packet_len(pkt)))
           => entry_of(connections', ConnectionId(pkt, packet_type)).byte_count = U64Max
    ]_vars

(***************************************************************************)
(* C21.  When the capture device cannot be found or opened, the failure is *)
(* reported to the caller of start_packet_capture, no capture loop is      *)
(* started, the process goes on (the UI thread runs), and the connection   *)
(* table, the geo statistics and the ten counts keep their initial values. *)
(***************************************************************************)
C21_DeviceFailureFatalToCaptureOnly ==
  (fn_arg # << >> /\ fn_arg[1] # "opened")
    => /\ fn_ret = << "Err" >>
       /\ pc = "not_spawned"
       /\ cpc # "exited"
       /\ connections = {}
       /\ locations = << >>
       /\ top_country = "None"
       /\ counts = PacketStats_new_counts

(***************************************************************************)
(* C22.  While the capture thread is inside next_packet, or in the delay   *)
(* after a read error, it holds none of the three mutexes, so a try_lock   *)
(* of the UI thread on any of them succeeds: a read that never returns     *)
(* starves the capture thread only.                                        *)
(***************************************************************************)
C22_BlockedReadStarvesProducerOnly ==
  pc \in {"read", "sleep"}
    => /\ "producer" \notin connLock \cup geoLock \cup statsLock
       /\ cpc = "idle" => /\ try_lock(connLock)
                          /\ try_lock(geoLock)
                          /\ try_lock(statsLock)
                          /\ ENABLED CDrawConnsTry
                          /\ ENABLED CDrawGeoTry
                          /\ ENABLED CDrawStatsTry
                          /\ ENABLED CUpdateTry

\* the capture thread is in the delay after an error, having handled a frame
\* before, while the UI thread holds a mutex it acquired
C22_Witness ==
  /\ pc = "sleep"
  /\ counts # PacketStats_new_counts
  /\ cpc = "update"
  /\ "consumer" \in statsLock

(***************************************************************************)
(* C23.  The connection table changes only while the capture thread        *)
(* handles a TCP or UDP segment over IPv4.  While it handles a frame that  *)
(* carries IPv6 (any next header), ICMP or another protocol, the           *)
(* connection table and the geo statistics stay as they are, and the       *)
(* counter update adds one to the frame's category: the port class for     *)
(* TCP and UDP over IPv6, ICMP for ICMP and ICMPv6, Other otherwise.       *)
(***************************************************************************)
\* an IP frame that is not a TCP or UDP segment over IPv4
NonFlowFrame(f) ==
  /\ f.eth \in {"ipv4", "ipv6"}
  /\ f.ip_ok
  /\ f.eth = "ipv6" \/ f.proto \notin {"tcp", "udp"}

\* a TCP or UDP segment over IPv4
FlowFrame(f) == f.eth = "ipv4" /\ f.ip_ok /\ f.proto \in {"tcp", "udp"} /\ f.l4_ok

\* either port of the frame is p
FramePort(f, p) == f.src_port = p \/ f.dst_port = p

\* the category of a non-flow frame
NonFlowCategory(f) ==
  IF f.proto = "tcp" /\ f.l4_ok
  THEN IF FramePort(f, 80) THEN "TCP_HTTP"
       ELSE IF FramePort(f, 443) THEN "TCP_HTTPS"
       ELSE IF FramePort(f, 22) THEN "TCP_SSH"
       ELSE IF FramePort(f, 53) THEN "TCP_DNS"
       ELSE "TCP_Other"
  ELSE IF f.proto = "udp" /\ f.l4_ok
  THEN IF FramePort(f, 53) THEN "UDP_DNS"
       ELSE IF FramePort(f, 67) \/ FramePort(f, 68) THEN "UDP_DHCP"
       ELSE "UDP_Other"
  ELSE IF (f.eth = "ipv4" /\ f.proto = "icmp") \/ (f.eth = "ipv6" /\ f.proto = "icmpv6")
  THEN "ICMP"
  ELSE "Other"

C23_OnlyIpv4FlowsTouchTables ==
  [][ /\ connections' # connections => FlowFrame(pkt)
      /\ (NonFlowFrame(pkt) \/ NonFlowFrame(pkt')) =>
           /\ connections' = connections
           /\ locations' = locations
           /\ top_country' = top_country
           /\ (pc = "try_stats" /\ statsLock = {} /\ pc' # pc) => pc' = "stats_body"
           /\ counts' = IF pc = "stats_body" /\ pc' = "check"
                        THEN [counts EXCEPT ![NonFlowCategory(pkt)] = @ + 1]
                        ELSE counts
    ]_vars

\* IPv6 DHCP, IPv6 HTTPS and ICMP or ICMPv6 frames have been counted and the
\* tables are still empty
C23_Witness ==
  /\ counts["UDP_DHCP"] + counts["TCP_HTTPS"] + counts["ICMP"] = 2
  /\ connections = {}
  /\ locations = << >>
  /\ pc = "check"

C25_SnapshotsIndependent ==
  [][ /\ counts' # counts => history' = history
      /\ samples_log' # samples_log =>
           /\ Len(history') >= 1
           /\ history'[Len(history')] = counts
           /\ LET evicted == IF Len(history) >= HistoryCap THEN 1 ELSE 0
              IN /\ Len(history') = Len(history) + 1 - evicted
                 /\ \A i \in 1..(Len(history') - 1) : history'[i] = history[i + evicted]
    ]_vars

\* the first snapshot still shows the counts before the increment, the last one
\* the counts after it
C25_Witness ==
  /\ Len(history) >= 2
  /\ history[1] = PacketStats_new_counts
  /\ counts # PacketStats_new_counts
  /\ history[Len(history)] = counts

(***************************************************************************)
(* C26.  An App::update that locks packet_stats pushes a snapshot if and   *)
(* only if at least one whole second has passed since the last one (since  *)
(* construction for the first): after k > 1 seconds it pushes exactly one, *)
(* after less than a second none.                                          *)
(***************************************************************************)
C26_SamplingCadence ==
  [][ LET whole_second == clock - last_update >= TicksPerSec IN
        /\ (clock' = clock /\ whole_second) =>
             /\ samples_log' = Append(samples_log, counts)
             /\ Len(history') = Len(history) + 1
             /\ last_update' = clock
        /\ (clock' = clock /\ ~whole_second) =>
             /\ samples_log' = samples_log
             /\ history' = history
             /\ last_update' = last_update
        /\ samples_log' # samples_log =>
             /\ whole_second
             /\ Len(samples_log') = Len(samples_log) + 1
    ]_vars

\* an update less than a second after the start pushed nothing, and the update
\* two seconds or more after the start pushed exactly one snapshot
C26_Witness ==
  /\ Len(samples_log) = 1
  /\ Len(history) = 1
  /\ last_update >= 2 * TicksPerSec
  /\ 0 < network_stats.last_update
  /\ network_stats.last_update < TicksPerSec

(***************************************************************************)
(* C27.  After every App::update that found the interface, the stored rx   *)
(* and tx counters are the counters just read and the stored stamp is the  *)
(* time of the call, whichever speed branch ran; when no time has passed   *)
(* since the last sample both speeds keep their values, and the counters   *)
(* and the stamp are stored all the same.                                  *)
(***************************************************************************)
C27_SamplerBookkeeping ==
  [][ (clock' = clock /\ fn_arg'[1].present) =>
        /\ network_stats'.rx_bytes = fn_arg'[1].rx_bytes
        /\ network_stats'.tx_bytes = fn_arg'[1].tx_bytes
        /\ network_stats'.last_update = clock
        /\ clock - network_stats.last_update <= 0 =>
             /\ network_stats'.rx_speed = network_stats.rx_speed
             /\ network_stats'.tx_speed = network_stats.tx_speed
    ]_vars

\* the counters read 0 and 1000 were stored by a call at the instant of the
\* previous sample, which had found a positive rx speed
C27_Witness ==
  /\ fn_arg = << [present |-> TRUE, rx_bytes |-> 0, tx_bytes |-> 1000] >>
  /\ network_stats.rx_bytes = 0
  /\ network_stats.tx_bytes = 1000
  /\ network_stats.rx_speed.num > 0
  /\ network_stats.last_update = clock
  /\ clock > 0

(***************************************************************************)
(* C28.  An App::update that finds no interface of the configured name     *)
(* leaves network_stats as it was: the stored rx and tx counters, both     *)
(* speeds and the stamp of the last sample keep their values.              *)
(***************************************************************************)
C28_AbsentInterfaceKeepsSample ==
  [][ (clock' = clock /\ ~fn_arg'[1].present) =>
        /\ network_stats'.rx_bytes = network_stats.rx_bytes
        /\ network_stats'.tx_bytes = network_stats.tx_bytes
        /\ network_stats'.rx_speed = network_stats.rx_speed
        /\ network_stats'.tx_speed = network_stats.tx_speed
        /\ network_stats'.last_update = network_stats.last_update
    ]_vars

\* the last update found no interface, after a sample that stored counters
\* and a positive speed; the sample is still there
C28_Witness ==
  /\ fn_arg = << [present |-> FALSE, rx_bytes |-> 0, tx_bytes |-> 0] >>
  /\ network_stats.rx_bytes = 1500
  /\ network_stats.tx_bytes = 200
  /\ network_stats.rx_speed.num > 0
  /\ network_stats.last_update > 0

(***************************************************************************)
(* C29.  A read error changes none of the counts, the connection table and *)
(* the geo statistics; it adds one to consecutive_errors and the thread    *)
(* sleeps before the next read; a successful read sets consecutive_errors  *)
(* to 0.  So consecutive_errors is always the number of errors since the   *)
(* last successful read (which the counter must be able to hold).          *)
(***************************************************************************)
C29_ReadErrorCounted ==
  [][ pc = "read" /\ pc' # pc =>
        IF pc' \in {"sleep", "panicked"}
        THEN /\ consecutive_errors < I32Max
             /\ consecutive_errors' = consecutive_errors + 1
             /\ pc' = "sleep"
             /\ counts' = counts
             /\ connections' = connections
             /\ locations' = locations
             /\ top_country' = top_country
        ELSE consecutive_errors' = 0
    ]_vars

(***************************************************************************)
(* C30.  Flows are directed.  Between upserts the connection table has one *)
(* record for every distinct five-field key upserted (source address,      *)
(* destination address, source port, destination port, category) and no    *)
(* other, and each record counts exactly the packets that carried its own  *)
(* five fields: the two directions of a conversation are two records.      *)
(***************************************************************************)
C30_FlowsDirected ==
  pc \notin ConnWritePcs =>
    /\ \A id \in LoggedIds : Cardinality({e \in connections : e.id = id}) = 1
    /\ \A e \in connections :
         /\ e.id \in LoggedIds
         /\ e.packet_count = U64(Len(LogOf(e.id)))

\* both directions of the conversation 192.168.1.2:5000 <-> 8.8.8.8:443 were
\* read, and each has its own record of one packet
C30_Witness ==
  /\ pc = "check"
  /\ Cardinality(connections) = 2
  /\ \E e1 \in connections, e2 \in connections :
       /\ e1.id.src_ip = LocalHost /\ e1.id.dst_ip = RemoteUS
       /\ e1.id.src_port = 5000 /\ e1.id.dst_port = 443
       /\ e2.id.src_ip = e1.id.dst_ip /\ e2.id.dst_ip = e1.id.src_ip
       /\ e2.id.src_port = e1.id.dst_port /\ e2.id.dst_port = e1.id.src_port
       /\ e2.id.protocol = e1.id.protocol
       /\ e1.packet_count = U64(1) /\ e2.packet_count = U64(1)

(***************************************************************************)
(* C31.  Records of the connection table are never removed: in every step  *)
(* of the capture thread and of the UI thread, each key present stays      *)
(* present with the same first_seen, and the number of records does not    *)
(* decrease.                                                               *)
(***************************************************************************)
C31_RecordsNeverRemoved ==
  [][ /\ \A e \in connections :
           \E n \in connections' : n.id = e.id /\ n.first_seen = e.first_seen
      /\ Cardinality(connections') >= Cardinality(connections)
    ]_vars

\* a record created at time 0 is still there, with its first_seen, beside a
\* record of another flow created a second later
C31_Witness ==
  /\ pc = "check"
  /\ Cardinality(connections) = 2
  /\ \E e1 \in connections, e2 \in connections :
       /\ e1.first_seen = 0
       /\ e2.first_seen = TicksPerSec

(***************************************************************************)
(* C32.  get_connection_direction returns Outbound exactly when the source *)
(* address lies in a configured local range and the destination does not;  *)
(* remote to local, local to local, remote to remote, and any pair with an *)
(* IPv6 source, give Inbound.                                              *)
(***************************************************************************)
\* the address is an IPv4 address whose leading bits are those of a configured range
InConfiguredRange(ip, nets) ==
  /\ ip.v = 4
  /\ \E i \in 1..Len(nets) : LeadingBitsEqual(ip.o, nets[i].base, nets[i].prefix)

C32_Direction ==
  (fn_ret # << >>) =>
    LET src_local == InConfiguredRange(fn_arg.src_ip, fn_arg.nets)
        dst_local == InConfiguredRange(fn_arg.dst_ip, fn_arg.nets)
    IN /\ fn_ret[1] \in {"Outbound", "Inbound"}
       /\ fn_ret[1] = "Outbound" <=> (src_local /\ ~dst_local)
       /\ fn_arg.src_ip.v = 6 => fn_ret[1] = "Inbound"

\* under the built-in ranges a flow between two local hosts was found Inbound
C32_Witness ==
  /\ fn_arg.src_ip = V4(192, 168, 1, 2)
  /\ fn_arg.dst_ip = V4(10, 0, 0, 1)
  /\ Len(fn_arg.nets) = 5
  /\ fn_ret = << "Inbound" >>

(***************************************************************************)
(* C33.  No lock nesting and no waiting.  The capture thread holds at most *)
(* one of the three mutexes at any time, and so does the UI thread; a      *)
(* mutex never has two holders.  Every acquisition is a try_lock: at each  *)
(* of its try_lock sites the capture thread can take a step whoever holds  *)
(* the mutex, the UI thread can always take a step, and a UI step that     *)
(* acquires a mutex finds it free.  A step of the UI thread changes the    *)
(* shared state only under the guard it holds: nothing but the history of  *)
(* packet_stats, and that only inside App::update.                         *)
(***************************************************************************)
HeldBy(who) ==
  {l \in LockNames :
     who \in (CASE l = "connections" -> connLock
                [] l = "geo_stats" -> geoLock
                [] l = "packet_stats" -> statsLock)}

C33_NoNestingNoWaiting ==
  /\ [] /\ Cardinality(HeldBy("producer")) <= 1
        /\ Cardinality(HeldBy("consumer")) <= 1
        /\ HeldBy("producer") \cap HeldBy("consumer") = {}
        /\ pc = "try_conns" => ENABLED TryConns
        /\ pc = "try_geo" => ENABLED TryGeo
        /\ pc = "try_stats" => ENABLED TryStats
        /\ cpc # "quit" => ENABLED Consumer
  /\ [][ cpc' # cpc =>
           /\ HeldBy("consumer")' \ HeldBy("consumer") \subseteq
                {l \in LockNames : HeldBy("producer") \cap {l} = {}}
           /\ connections' = connections
           /\ counts' = counts
           /\ locations' = locations
           /\ top_country' = top_country
           /\ (history' # history \/ last_update' # last_update) =>
                (cpc = "update" /\ "consumer" \in statsLock)
       ]_vars

\* the UI thread holds the connections mutex; the capture thread skipped the
\* connection update of its packet, ran the geo update and now holds the
\* packet_stats mutex, and nothing else
C33_Witness ==
  /\ cpc = "draw_connections"
  /\ HeldBy("consumer") = {"connections"}
  /\ pc = "stats_body"
  /\ skipped["connections"]
  /\ HeldBy("producer") = {"packet_stats"}
  /\ locations # << >>

(***************************************************************************)
(* C34.  The three updates of one packet are attempted independently.  A   *)
(* failed try_lock on connections changes no table and leads to the next   *)
(* block of the same packet (the geo block of an IPv4 TCP segment, the     *)
(* packet_stats block otherwise); a failed try_lock on geo_stats leads to  *)
(* the packet_stats block.  An iteration that decoded a frame ends only at *)
(* the packet_stats block, and by then every block of the packet was tried *)
(* exactly once, whatever the outcome of the others.  A failed try_lock on *)
(* packet_stats leaves connections and the locations as the earlier blocks *)
(* of the packet wrote them.                                               *)
(***************************************************************************)
C34_UpdatesIndependent ==
  [][ /\ (pc = "try_conns" /\ pc' # "try_conns" /\ "producer" \notin connLock') =>
           /\ pc' = (IF IsTcp4(pkt) THEN "try_geo" ELSE "try_stats")
           /\ pkt' = pkt /\ packet_type' = packet_type
           /\ connections' = connections /\ counts' = counts
           /\ locations' = locations
      /\ (pc = "try_geo" /\ pc' # "try_geo" /\ "producer" \notin geoLock') =>
           /\ pc' = "try_stats"
           /\ pkt' = pkt /\ packet_type' = packet_type
           /\ connections' = connections /\ counts' = counts
           /\ locations' = locations
      /\ (pkt # NoFrame /\ pc' = "check" /\ pc # "check") =>
           /\ pc \in {"try_stats", "stats_body"}
           /\ attempts["connections"] = (IF IsTcp4(pkt) \/ IsUdp4(pkt) THEN 1 ELSE 0)
           /\ attempts["geo_stats"] = (IF IsTcp4(pkt) THEN 1 ELSE 0)
           /\ pc = "stats_body" => counts' = increment(counts, packet_type)
           /\ pc = "try_stats" =>
                /\ connections' = connections /\ counts' = counts
                /\ locations' = locations
                /\ ((IsTcp4(pkt) \/ IsUdp4(pkt)) /\ ~skipped["connections"]) =>
                     \E e \in connections' :
                        /\ e.id = ConnectionId(pkt, packet_type)
                        /\ e.last_seen = now_local
    ]_vars

\* the one segment read so far was counted and attributed to a region while
\* its connection update was skipped
C34_Witness ==
  /\ pc = "check"
  /\ frames_read = 1
  /\ flow_frames = 1
  /\ flow_skips = 1
  /\ connections = {}
  /\ locations # << >>
  /\ counts # PacketStats_new_counts

(***************************************************************************)
(* C35.  With no contention and IPv4 traffic only, the two tables agree    *)
(* between packets: for each of the five TCP and three UDP categories, the *)
(* count of the category in packet_stats equals the sum of packet_count    *)
(* over the connection records of that category.                           *)
(***************************************************************************)
FlowCategories ==
  {"TCP_HTTP", "TCP_HTTPS", "TCP_SSH", "TCP_DNS", "TCP_Other",
   "UDP_DNS", "UDP_DHCP", "UDP_Other"}

BetweenPackets == pc \in {"check", "read", "sleep", "done"}

C35_TablesAgree ==
  BetweenPackets =>
    \A c \in FlowCategories :
       counts[c] = SumPackets({e \in connections : e.id.protocol = c})

\* two HTTPS segments, one of each direction of a connection: two records
C35_Witness ==
  /\ pc = "check"
  /\ counts["TCP_HTTPS"] = 2
  /\ Cardinality({e \in connections : e.id.protocol = "TCP_HTTPS"}) = 2

(***************************************************************************)
(* C36.  Every key of the connection table has IPv4 source and destination *)
(* addresses, and its category is one of the five TCP or three UDP         *)
(* categories and is the one the TCP rules, or the UDP rules, give for the *)
(* key's own source and destination ports; no key has category ICMP or     *)
(* Other.                                                                  *)
(***************************************************************************)
TcpCategories == {"TCP_HTTP", "TCP_HTTPS", "TCP_SSH", "TCP_DNS", "TCP_Other"}

UdpCategories == {"UDP_DNS", "UDP_DHCP", "UDP_Other"}

C36_KeysWellFormed ==
  \A e \in connections :
     /\ e.id.src_ip.v = 4
     /\ e.id.dst_ip.v = 4
     /\ e.id.protocol \in TcpCategories \cup UdpCategories
     /\ e.id.protocol \notin {"ICMP", "Other"}
     /\ e.id.protocol \in TcpCategories =>
          e.id.protocol = classify_tcp_v4(e.id.src_port, e.id.dst_port)
     /\ e.id.protocol \in UdpCategories =>
          e.id.protocol = classify_udp_v4(e.id.src_port, e.id.dst_port)

\* a TCP and a UDP key with the same addresses and ports 5000 -> 443, after
\* ICMP, IPv6 and unrecognised frames could have been read
C36_Witness ==
  /\ pc = "check"
  /\ \E e1, e2 \in connections :
        /\ e1.id.protocol = "TCP_HTTPS"
        /\ e2.id.protocol = "UDP_Other"
        /\ e1.id.src_port = e2.id.src_port
        /\ e1.id.dst_port = e2.id.dst_port
        /\ e1.id.dst_ip = e2.id.dst_ip

(***************************************************************************)
(* C37.  An App::update that finds the packet_stats mutex taken changes    *)
(* neither the history nor its last_update stamp.  A sample that is due    *)
(* (a whole second since last_update) stays due through every step that    *)
(* takes no sample, so the first later App::update that finds the mutex    *)
(* free pushes the current counts and stamps last_update with the clock.   *)
(***************************************************************************)
SampleDue == elapsed_secs(clock, last_update) >= 1

C37_SkippedSampleTakenLater ==
  [][ LET update_step == pc' = pc /\ clock' = clock IN
        /\ (update_step /\ "producer" \in statsLock) =>
              /\ history' = history
              /\ last_update' = last_update
              /\ samples_log' = samples_log
        /\ (SampleDue /\ samples_log' = samples_log) =>
              /\ history' = history
              /\ last_update' = last_update
              /\ SampleDue'
        /\ (update_step /\ SampleDue /\ statsLock = {}) =>
              /\ history' = update_history(history, counts)
              /\ last_update' = clock
              /\ ~SampleDue'
    ]_vars

\* App::update read the interface a second after start, when a sample was
\* due, while the capture thread held the packet_stats mutex: no sample yet
C37_Witness ==
  /\ "producer" \in statsLock
  /\ SampleDue
  /\ network_stats.last_update = clock
  /\ clock > 0
  /\ history = << >>
  /\ last_update = 0

(***************************************************************************)
(* C38.  Stop liveness.  Once the stop signal is set, and unless the       *)
(* thread is inside a next_packet call that never returns, the capture     *)
(* loop eventually exits through its loop head; and no iteration starts    *)
(* with the signal set, so that at most the iteration in flight completes. *)
(***************************************************************************)
ReadNeverReturns == pc = "read" /\ frames_read >= MaxFrames

C38_StopLiveness ==
  /\ (~running /\ ~ReadNeverReturns) ~> (pc = "done")
  /\ [][ (pc' = "read" /\ pc # "read") => (pc = "check" /\ running) ]_vars

(***************************************************************************)
(* C39.  Under the five built-in ranges the two local-address classifiers  *)
(* agree: for every IPv4 address, is_local_ip is true exactly when         *)
(* is_loopback_ip or is_private_ip is.                                     *)
(***************************************************************************)
C39_ClassifiersAgree ==
  (fn_ret # << >>) =>
     /\ fn_arg.v = 4
     /\ fn_ret[1].is_local_ip = (fn_ret[1].is_loopback_ip \/ fn_ret[1].is_private_ip)

\* a link-local address: private by is_private_ip's fourth test, local by the
\* fifth built-in range
C39_Witness ==
  /\ fn_arg = V4(169, 254, 255, 255)
  /\ fn_ret = << [is_local_ip |-> TRUE, is_private_ip |-> TRUE,
                  is_loopback_ip |-> FALSE] >>

====
